---- MODULE Spec2Model ----
(***************************************************************************)
(* State-machine model of the cw-crud repository contract: the storage     *)
(* items of state.rs, the execute handlers create / reply / update /       *)
(* remove / set_acl, and the read query with its cursor pagination.        *)
(*                                                                         *)
(* Every handler is a function from the storage (a record with one field   *)
(* per storage item of state.rs) to a result [err, st]; an action commits  *)
(* the new storage only when err = "Ok", as the host commits a call's      *)
(* writes only when the call returns Ok.                                   *)
(***************************************************************************)
EXTENDS Integers, Sequences, FiniteSets, TLC

\* ---------------------------------------------------------------- constants
SLOT_COUNT == 5
MIN_LIMIT == 1
MAX_LIMIT == 50
DEFAULT_LIMIT == 25

\* ------------------------------------------------------------------- bounds
\* Spec: create is offered while COUNT < MaxCount
MaxCount == 2
\* Spec: the chain instantiates at most MaxInst contracts (fresh addresses)
MaxInst == 3
\* Spec: update is offered while the sender's rev < MaxRev
MaxRev == 1
\* new blocks are produced while block time < MaxTime
MaxTime == 2
\* Spec: uint64 slot values range over 1..RegMaxVal
RegMaxVal == 1
\* SpecKinds: slot values of the integer kinds range over 1..MaxVal
MaxVal == 2
\* SpecKinds: one item, every value kind
KindsMaxCount == 1
KindsMaxInst == 1
KindsMaxRev == 2
\* SpecRead: up to ReadMaxCount items with uint64 values 1..ReadMaxVal are
\* read with raw limits 0..ReadMaxLimit
ReadMaxCount == 3
ReadMaxVal == 2
ReadMaxLimit == 2
\* SpecLimit: the numbers of items of the populated registries, the largest
\* limit a read asks for, and the pages a reader follows
LimitMidItems == 26
LimitMaxItems == 52
LimitMaxLimit == 60
LimitMaxPages == 3
\* SpecTargets: the items created and the pages a reader follows
TargetsMaxCount == 2
TargetsMaxPages == 3
\* SpecDup: the items created and the updates an item sends
DupMaxCount == 1
DupMaxRev == 2
\* SpecCalls: the items created and the calls whose outcome a run records
CallsMaxCount == 1
CallsMaxCalls == 3
\* SpecPresets: the creates sent
PresetsMaxCalls == 3

\* ------------------------------------------------------------------ options
None == <<>>
Some(v) == <<v>>
IsSome(o) == o # <<>>
Unwrap(o) == o[1]

\* ---------------------------------------------------------------- addresses
Creator == "creator"
Stranger == "stranger"
AclAddr == "acl"
AddrNames ==
  <<"c1", "c2", "c3", "c4", "c5", "c6", "c7", "c8", "c9", "c10",
    "c11", "c12", "c13", "c14", "c15", "c16", "c17", "c18", "c19", "c20",
    "c21", "c22", "c23", "c24", "c25", "c26", "c27", "c28", "c29", "c30",
    "c31", "c32", "c33", "c34", "c35", "c36", "c37", "c38", "c39", "c40",
    "c41", "c42", "c43", "c44", "c45", "c46", "c47", "c48", "c49", "c50",
    "c51", "c52", "c53", "c54", "c55", "c56", "c57", "c58", "c59", "c60">>
\* the address the chain gives its n-th instantiated contract
ContractAddr(n) == AddrNames[n]
ContractAddrsUpTo(n) == {ContractAddr(i) : i \in 1..n}

\* ------------------------------------------------------------- storage maps
\* cw_storage_plus::Map as a function whose domain is the set of stored keys
EmptyMap == <<>>
MapHas(m, k) == k \in DOMAIN m
MapSave(m, k, v) == [x \in (DOMAIN m) \cup {k} |-> IF x = k THEN v ELSE m[x]]
MapRemove(m, k) == [x \in (DOMAIN m) \ {k} |-> m[x]]

Slots == 0..(SLOT_COUNT - 1)

VARIABLES
  CREATED_BY, ALLOWED_CODE_IDS, DEFAULT_LABEL, DEFAULT_CODE_ID, COUNT,
  ACL_CONTRACT_ADDR, PRESETS, RELATIONSHIPS, TAGGED_CONTRACT_IDS,
  ID_2_ADDR, ADDR_2_ID, ID_2_INDEXED_VALUES, METADATA,
  IX_META_U64, IX_META_U128, IX_META_STRING, IX_META_BOOL, IX_META_TIMESTAMP,
  IX_CREATED_BY, IX_CREATED_AT, IX_UPDATED_AT, IX_CODE_ID, IX_HEIGHT, IX_REV,
  IX_U64, IX_U128, IX_TS, IX_BOOL, IX_TEXT,
  env_block, instances, pending, rd

storeVars == <<CREATED_BY, ALLOWED_CODE_IDS, DEFAULT_LABEL, DEFAULT_CODE_ID, COUNT,
  ACL_CONTRACT_ADDR, PRESETS, RELATIONSHIPS, TAGGED_CONTRACT_IDS,
  ID_2_ADDR, ADDR_2_ID, ID_2_INDEXED_VALUES, METADATA,
  IX_META_U64, IX_META_U128, IX_META_STRING, IX_META_BOOL, IX_META_TIMESTAMP,
  IX_CREATED_BY, IX_CREATED_AT, IX_UPDATED_AT, IX_CODE_ID, IX_HEIGHT, IX_REV,
  IX_U64, IX_U128, IX_TS, IX_BOOL, IX_TEXT>>

vars == <<storeVars, env_block, instances, pending, rd>>

\* the contract's storage as one record
Store ==
  [CREATED_BY |-> CREATED_BY, ALLOWED_CODE_IDS |-> ALLOWED_CODE_IDS,
   DEFAULT_LABEL |-> DEFAULT_LABEL, DEFAULT_CODE_ID |-> DEFAULT_CODE_ID,
   COUNT |-> COUNT, ACL_CONTRACT_ADDR |-> ACL_CONTRACT_ADDR, PRESETS |-> PRESETS,
   RELATIONSHIPS |-> RELATIONSHIPS, TAGGED_CONTRACT_IDS |-> TAGGED_CONTRACT_IDS,
   ID_2_ADDR |-> ID_2_ADDR, ADDR_2_ID |-> ADDR_2_ID,
   ID_2_INDEXED_VALUES |-> ID_2_INDEXED_VALUES, METADATA |-> METADATA,
   IX_META_U64 |-> IX_META_U64, IX_META_U128 |-> IX_META_U128,
   IX_META_STRING |-> IX_META_STRING, IX_META_BOOL |-> IX_META_BOOL,
   IX_META_TIMESTAMP |-> IX_META_TIMESTAMP,
   IX_CREATED_BY |-> IX_CREATED_BY, IX_CREATED_AT |-> IX_CREATED_AT,
   IX_UPDATED_AT |-> IX_UPDATED_AT, IX_CODE_ID |-> IX_CODE_ID,
   IX_HEIGHT |-> IX_HEIGHT, IX_REV |-> IX_REV,
   IX_U64 |-> IX_U64, IX_U128 |-> IX_U128, IX_TS |-> IX_TS,
   IX_BOOL |-> IX_BOOL, IX_TEXT |-> IX_TEXT]

\* the host commits the storage a successful call leaves
Commit(st) ==
  /\ CREATED_BY' = st.CREATED_BY
  /\ ALLOWED_CODE_IDS' = st.ALLOWED_CODE_IDS
  /\ DEFAULT_LABEL' = st.DEFAULT_LABEL
  /\ DEFAULT_CODE_ID' = st.DEFAULT_CODE_ID
  /\ COUNT' = st.COUNT
  /\ ACL_CONTRACT_ADDR' = st.ACL_CONTRACT_ADDR
  /\ PRESETS' = st.PRESETS
  /\ RELATIONSHIPS' = st.RELATIONSHIPS
  /\ TAGGED_CONTRACT_IDS' = st.TAGGED_CONTRACT_IDS
  /\ ID_2_ADDR' = st.ID_2_ADDR
  /\ ADDR_2_ID' = st.ADDR_2_ID
  /\ ID_2_INDEXED_VALUES' = st.ID_2_INDEXED_VALUES
  /\ METADATA' = st.METADATA
  /\ IX_META_U64' = st.IX_META_U64
  /\ IX_META_U128' = st.IX_META_U128
  /\ IX_META_STRING' = st.IX_META_STRING
  /\ IX_META_BOOL' = st.IX_META_BOOL
  /\ IX_META_TIMESTAMP' = st.IX_META_TIMESTAMP
  /\ IX_CREATED_BY' = st.IX_CREATED_BY
  /\ IX_CREATED_AT' = st.IX_CREATED_AT
  /\ IX_UPDATED_AT' = st.IX_UPDATED_AT
  /\ IX_CODE_ID' = st.IX_CODE_ID
  /\ IX_HEIGHT' = st.IX_HEIGHT
  /\ IX_REV' = st.IX_REV
  /\ IX_U64' = st.IX_U64
  /\ IX_U128' = st.IX_U128
  /\ IX_TS' = st.IX_TS
  /\ IX_BOOL' = st.IX_BOOL
  /\ IX_TEXT' = st.IX_TEXT

\* the storage instantiate installs
Installed(st) ==
  /\ CREATED_BY = st.CREATED_BY
  /\ ALLOWED_CODE_IDS = st.ALLOWED_CODE_IDS
  /\ DEFAULT_LABEL = st.DEFAULT_LABEL
  /\ DEFAULT_CODE_ID = st.DEFAULT_CODE_ID
  /\ COUNT = st.COUNT
  /\ ACL_CONTRACT_ADDR = st.ACL_CONTRACT_ADDR
  /\ PRESETS = st.PRESETS
  /\ RELATIONSHIPS = st.RELATIONSHIPS
  /\ TAGGED_CONTRACT_IDS = st.TAGGED_CONTRACT_IDS
  /\ ID_2_ADDR = st.ID_2_ADDR
  /\ ADDR_2_ID = st.ADDR_2_ID
  /\ ID_2_INDEXED_VALUES = st.ID_2_INDEXED_VALUES
  /\ METADATA = st.METADATA
  /\ IX_META_U64 = st.IX_META_U64
  /\ IX_META_U128 = st.IX_META_U128
  /\ IX_META_STRING = st.IX_META_STRING
  /\ IX_META_BOOL = st.IX_META_BOOL
  /\ IX_META_TIMESTAMP = st.IX_META_TIMESTAMP
  /\ IX_CREATED_BY = st.IX_CREATED_BY
  /\ IX_CREATED_AT = st.IX_CREATED_AT
  /\ IX_UPDATED_AT = st.IX_UPDATED_AT
  /\ IX_CODE_ID = st.IX_CODE_ID
  /\ IX_HEIGHT = st.IX_HEIGHT
  /\ IX_REV = st.IX_REV
  /\ IX_U64 = st.IX_U64
  /\ IX_U128 = st.IX_U128
  /\ IX_TS = st.IX_TS
  /\ IX_BOOL = st.IX_BOOL
  /\ IX_TEXT = st.IX_TEXT

Ok(st) == [err |-> "Ok", st |-> st]
Err(e) == [err |-> e]
IsOk(r) == r.err = "Ok"

\* ---------------------------------------------------------------- models.rs
Kinds == {"Uint64", "Uint128", "Text", "Timestamp", "Boolean"}

\* IndexMetadata::new
IndexMetadata_new(slot, name) ==
  [slot |-> slot, name |-> name, updated_at |-> None, updated_key |-> None, size |-> 0]

\* IndexedValues::new: five vectors of SLOT_COUNT empty options
IndexedValues_new ==
  [uint64 |-> [s \in Slots |-> None], uint128 |-> [s \in Slots |-> None],
   text |-> [s \in Slots |-> None], timestamp |-> [s \in Slots |-> None],
   boolean |-> [s \in Slots |-> None]]

\* Timestamp::nanos: a Timestamp is held as its u64 count of nanoseconds
nanos(t) == t

\* `if value { 1 } else { 0 }`
bool_to_u8(b) == IF b THEN 1 ELSE 0

\* ----------------------------------------------------------------- state.rs
\* the IX_META_* map that IndexSlotName / IndexSlotValue kind `k` names
MetaField(k) ==
  CASE k = "Uint64" -> "IX_META_U64"
    [] k = "Uint128" -> "IX_META_U128"
    [] k = "Timestamp" -> "IX_META_TIMESTAMP"
    [] k = "Text" -> "IX_META_STRING"
    [] k = "Boolean" -> "IX_META_BOOL"

RECURSIVE initialize_indices(_, _)
initialize_indices(st, indices) ==
  IF indices = <<>> THEN st
  ELSE LET x == Head(indices)
           f == MetaField(x.kind)
       IN initialize_indices(
            [st EXCEPT ![f] = MapSave(@, x.slot, IndexMetadata_new(x.slot, x.name))],
            Tail(indices))

EmptyTables == [s \in Slots |-> {}]

\* storage before instantiate: nothing is stored
EmptyStore ==
  [CREATED_BY |-> "", ALLOWED_CODE_IDS |-> {}, DEFAULT_LABEL |-> None,
   DEFAULT_CODE_ID |-> 0, COUNT |-> 0, ACL_CONTRACT_ADDR |-> None,
   PRESETS |-> EmptyMap, RELATIONSHIPS |-> {}, TAGGED_CONTRACT_IDS |-> {},
   ID_2_ADDR |-> EmptyMap, ADDR_2_ID |-> EmptyMap,
   ID_2_INDEXED_VALUES |-> EmptyMap, METADATA |-> EmptyMap,
   IX_META_U64 |-> EmptyMap, IX_META_U128 |-> EmptyMap, IX_META_STRING |-> EmptyMap,
   IX_META_BOOL |-> EmptyMap, IX_META_TIMESTAMP |-> EmptyMap,
   IX_CREATED_BY |-> {}, IX_CREATED_AT |-> {}, IX_UPDATED_AT |-> {},
   IX_CODE_ID |-> {}, IX_HEIGHT |-> {}, IX_REV |-> {},
   IX_U64 |-> EmptyTables, IX_U128 |-> EmptyTables, IX_TS |-> EmptyTables,
   IX_BOOL |-> EmptyTables, IX_TEXT |-> EmptyTables]

SeqToSet(q) == {q[i] : i \in 1..Len(q)}

\* initialize: msg = [acl_address, default_label, default_code_id, code_ids, indices]
initialize(st, sender, msg) ==
  IF msg.code_ids = <<>> THEN Err("NoAllowedCodeIds")
  ELSE IF IsSome(msg.default_label) /\ Unwrap(msg.default_label) = "" THEN Err("InvalidLabel")
  ELSE LET default_code_id ==
             IF IsSome(msg.default_code_id) THEN Unwrap(msg.default_code_id)
             ELSE msg.code_ids[1]
       IN IF default_code_id \notin SeqToSet(msg.code_ids) THEN Err("CodeIdNotAllowed")
          ELSE LET st1 == [st EXCEPT !.CREATED_BY = sender,
                                     !.ACL_CONTRACT_ADDR = msg.acl_address,
                                     !.DEFAULT_LABEL = msg.default_label,
                                     !.DEFAULT_CODE_ID = default_code_id,
                                     !.COUNT = 0,
                                     !.ALLOWED_CODE_IDS = SeqToSet(msg.code_ids)]
               IN Ok(IF IsSome(msg.indices)
                     THEN initialize_indices(st1, Unwrap(msg.indices))
                     ELSE st1)

\* is_allowed: acl_reply is the answer of the external ACL contract
is_allowed(st, principal, action, acl_reply) ==
  IF IsSome(st.ACL_CONTRACT_ADDR) THEN acl_reply
  ELSE st.CREATED_BY = principal

\* get_next_contract_id: COUNT.update(n + 1) - 1
get_next_contract_id(st) ==
  [st |-> [st EXCEPT !.COUNT = @ + 1], id |-> (st.COUNT + 1) - 1]

owns_contract(st, contract_addr) == MapHas(st.METADATA, contract_addr)

\* get_contract_id: [err, id]
get_contract_id(st, contract_addr) ==
  IF MapHas(st.ADDR_2_ID, contract_addr)
  THEN [err |-> "Ok", id |-> st.ADDR_2_ID[contract_addr]]
  ELSE Err("NotFound")

\* get_u64_index .. get_bool_index: the table of the slot, or the error of
\* the `_` arm
get_index(slot) == IF slot \in Slots THEN "Ok" ELSE "NotAuthorized"
get_u64_index(slot) == get_index(slot)
get_u128_index(slot) == get_index(slot)
get_timestamp_index(slot) == get_index(slot)
get_text_index(slot) == get_index(slot)
get_bool_index(slot) == get_index(slot)

\* update_index_size on the metadata map stored in field `map`; `wraps` tells
\* whether the build lets `meta.size -= delta` wrap (no overflow checks) or
\* panics, which aborts the call. u64 arithmetic is modulo 2^64 and a value is
\* held as its representative nearest 0: 0 - 1 stands for 2^64 - 1.
update_index_size(st, map, slot, delta, increment, wraps) ==
  IF ~MapHas(st[map], slot) THEN Err("InvalidIndexSlot")
  ELSE LET meta == st[map][slot]
       IN IF increment
          THEN Ok([st EXCEPT ![map] = MapSave(@, slot, [meta EXCEPT !.size = @ + delta])])
          ELSE IF meta.size - delta < 0 /\ ~wraps THEN Err("panic")
          ELSE Ok([st EXCEPT ![map] = MapSave(@, slot, [meta EXCEPT !.size = @ - delta])])

increment_index_size(st, map, slot) == update_index_size(st, map, slot, 1, TRUE, FALSE)
decrement_index_size(st, map, slot, wraps) == update_index_size(st, map, slot, 1, FALSE, wraps)

\* ---------------------------------------------------------------- create.rs
\* the table bank, the IndexedValues vector and the stored key an
\* IndexSlotValue of kind k addresses
TableField(k) ==
  CASE k = "Uint64" -> "IX_U64"
    [] k = "Uint128" -> "IX_U128"
    [] k = "Timestamp" -> "IX_TS"
    [] k = "Text" -> "IX_TEXT"
    [] k = "Boolean" -> "IX_BOOL"

KeysField(k) ==
  CASE k = "Uint64" -> "uint64"
    [] k = "Uint128" -> "uint128"
    [] k = "Timestamp" -> "timestamp"
    [] k = "Text" -> "text"
    [] k = "Boolean" -> "boolean"

KeyValue(k, value) ==
  CASE k = "Timestamp" -> nanos(value)
    [] k = "Boolean" -> bool_to_u8(value)
    [] OTHER -> value

get_kind_index(k, slot) ==
  CASE k = "Uint64" -> get_u64_index(slot)
    [] k = "Uint128" -> get_u128_index(slot)
    [] k = "Timestamp" -> get_timestamp_index(slot)
    [] k = "Text" -> get_text_index(slot)
    [] k = "Boolean" -> get_bool_index(slot)

\* an arm of create's match without its check of the slot
create_index_unchecked_slot(st, keys, params, contract_id) ==
  LET k == params.kind
      slot == params.slot
      v == KeyValue(k, params.value)
      r1 == increment_index_size(st, MetaField(k), slot)
  IN IF ~IsOk(r1) THEN r1
     ELSE IF get_kind_index(k, slot) # "Ok" THEN Err(get_kind_index(k, slot))
     ELSE [err |-> "Ok",
           st |-> [r1.st EXCEPT ![TableField(k)][slot] = @ \cup {<<v, contract_id>>}],
           keys |-> [keys EXCEPT ![KeysField(k)][slot] = Some(v)]]

\* one arm of create's `match params.clone()`: result [err, st, keys]
create_index(st, keys, params, contract_id) ==
  LET k == params.kind
      slot == params.slot
      v == KeyValue(k, params.value)
  IN IF slot >= SLOT_COUNT THEN Err("SlotOutOfBounds")
     ELSE LET r1 == increment_index_size(st, MetaField(k), slot)
          IN IF ~IsOk(r1) THEN r1
             ELSE IF get_kind_index(k, slot) # "Ok" THEN Err(get_kind_index(k, slot))
             ELSE [err |-> "Ok",
                   st |-> [r1.st EXCEPT ![TableField(k)][slot] = @ \cup {<<v, contract_id>>}],
                   keys |-> [keys EXCEPT ![KeysField(k)][slot] = Some(v)]]

\* create's loop over maybe_indices
RECURSIVE create_indices(_, _, _, _)
create_indices(st, keys, indices, contract_id) ==
  IF indices = <<>> THEN [err |-> "Ok", st |-> st, keys |-> keys]
  ELSE LET r == create_index(st, keys, Head(indices), contract_id)
       IN IF ~IsOk(r) THEN r
          ELSE create_indices(r.st, r.keys, Tail(indices), contract_id)

\* build_label: [err, label]; a label is the sequence of its fragments
build_label(st, custom_label, n) ==
  IF IsSome(custom_label) THEN [err |-> "Ok", label |-> <<Unwrap(custom_label)>>]
  ELSE IF IsSome(st.DEFAULT_LABEL)
       THEN [err |-> "Ok", label |-> <<Unwrap(st.DEFAULT_LABEL), "-", n>>]
       ELSE Err("LabelRequired")

OrEmpty(o) == IF IsSome(o) THEN Unwrap(o) ELSE <<>>

\* create, had it saved the preset over the one the sender already holds
\* under the name
create_overwrites_preset(st, sender, maybe_code_id, maybe_label, maybe_indices, maybe_save_as_preset_name, maybe_tags, maybe_address_tags, acl_reply) ==
  IF ~is_allowed(st, sender, "create", acl_reply) THEN Err("NotAuthorized")
  ELSE
  LET code_id == IF IsSome(maybe_code_id) THEN Unwrap(maybe_code_id) ELSE st.DEFAULT_CODE_ID
  IN
  IF code_id \notin st.ALLOWED_CODE_IDS THEN Err("CodeIdNotAllowed")
  ELSE
  LET n == get_next_contract_id(st)
      contract_id == n.id
      st1 == [n.st EXCEPT
                !.TAGGED_CONTRACT_IDS =
                   @ \cup {<<tag, contract_id>> : tag \in SeqToSet(OrEmpty(maybe_tags))},
                !.RELATIONSHIPS =
                   @ \cup {<<at.address, at.tag, contract_id>> :
                             at \in SeqToSet(OrEmpty(maybe_address_tags))},
                !.IX_CREATED_BY = @ \cup {<<sender, contract_id>>}]
      r == create_indices(st1, IndexedValues_new, OrEmpty(maybe_indices), contract_id)
  IN
  IF ~IsOk(r) THEN Err(r.err)
  ELSE
  LET st2 == [r.st EXCEPT !.ID_2_INDEXED_VALUES = MapSave(@, contract_id, r.keys)]
      l == build_label(st2, maybe_label, contract_id)
  IN
  IF ~IsOk(l) THEN Err(l.err)
  ELSE
  IF IsSome(maybe_save_as_preset_name)
  THEN LET key == <<sender, Unwrap(maybe_save_as_preset_name)>>
       IN [err |-> "Ok", contract_id |-> contract_id, code_id |-> code_id,
           st |-> [st2 EXCEPT !.PRESETS = MapSave(@, key,
                     [code_id |-> Some(code_id), tags |-> maybe_tags,
                      indices |-> maybe_indices, label |-> Some(l.label)])]]
  ELSE [err |-> "Ok", contract_id |-> contract_id, code_id |-> code_id, st |-> st2]

\* create: result [err, st, contract_id, code_id]; the instantiate submessage
\* it returns carries contract_id as its reply id
create(st, sender, maybe_code_id, maybe_label, maybe_indices, maybe_save_as_preset_name, maybe_tags, maybe_address_tags, acl_reply) ==
  IF ~is_allowed(st, sender, "create", acl_reply) THEN Err("NotAuthorized")
  ELSE
  LET code_id == IF IsSome(maybe_code_id) THEN Unwrap(maybe_code_id) ELSE st.DEFAULT_CODE_ID
  IN
  IF code_id \notin st.ALLOWED_CODE_IDS THEN Err("CodeIdNotAllowed")
  ELSE
  LET n == get_next_contract_id(st)
      contract_id == n.id
      st1 == [n.st EXCEPT
                !.TAGGED_CONTRACT_IDS =
                   @ \cup {<<tag, contract_id>> : tag \in SeqToSet(OrEmpty(maybe_tags))},
                !.RELATIONSHIPS =
                   @ \cup {<<at.address, at.tag, contract_id>> :
                             at \in SeqToSet(OrEmpty(maybe_address_tags))},
                !.IX_CREATED_BY = @ \cup {<<sender, contract_id>>}]
      r == create_indices(st1, IndexedValues_new, OrEmpty(maybe_indices), contract_id)
  IN
  IF ~IsOk(r) THEN Err(r.err)
  ELSE
  LET st2 == [r.st EXCEPT !.ID_2_INDEXED_VALUES = MapSave(@, contract_id, r.keys)]
      l == build_label(st2, maybe_label, contract_id)
  IN
  IF ~IsOk(l) THEN Err(l.err)
  ELSE
  IF IsSome(maybe_save_as_preset_name)
  THEN LET key == <<sender, Unwrap(maybe_save_as_preset_name)>>
       IN IF MapHas(st2.PRESETS, key) THEN Err("PresetExists")
          ELSE [err |-> "Ok", contract_id |-> contract_id, code_id |-> code_id,
                st |-> [st2 EXCEPT !.PRESETS = MapSave(@, key,
                          [code_id |-> Some(code_id), tags |-> maybe_tags,
                           indices |-> maybe_indices, label |-> Some(l.label)])]]
  ELSE [err |-> "Ok", contract_id |-> contract_id, code_id |-> code_id, st |-> st2]

\* ------------------------------------------------------- decimal strings
\* a string is the sequence of its characters
DigitChars == <<"0", "1", "2", "3", "4", "5", "6", "7", "8", "9">>
IsDigitChar(c) == \E d \in 1..10 : DigitChars[d] = c
DigitOf(c) == (CHOOSE d \in 1..10 : DigitChars[d] = c) - 1

\* u64::to_string
RECURSIVE to_string(_)
to_string(n) ==
  IF n < 10 THEN <<DigitChars[n + 1]>>
  ELSE Append(to_string(n \div 10), DigitChars[(n % 10) + 1])

RECURSIVE DigitsValue(_)
DigitsValue(s) ==
  IF s = <<>> THEN 0
  ELSE 10 * DigitsValue(SubSeq(s, 1, Len(s) - 1)) + DigitOf(s[Len(s)])

\* str::parse::<u64> / u64::from_str_radix(_, 10): [err, value]
parse_u64(s) ==
  IF s # <<>> /\ \A i \in 1..Len(s) : IsDigitChar(s[i])
  THEN [err |-> "Ok", value |-> DigitsValue(s)]
  ELSE Err("ParseIntError")

\* -------------------------------------------------------------- contract.rs
\* reply, had it answered a failed submessage with Ok
reply_accepts_failure(st, env, reply_id, result) ==
  IF ~result.ok THEN Ok(st)
  ELSE IF ~IsSome(result.contract_addr) THEN Ok(st)
  ELSE
  LET contract_id == reply_id
      contract_addr == Unwrap(result.contract_addr)
      rev == 0
  IN
  IF MapHas(st.METADATA, contract_addr) THEN Ok(st)
  ELSE
  LET parsed == IF IsSome(result.code_id) THEN parse_u64(Unwrap(result.code_id))
                ELSE [err |-> "Ok", value |-> 0]
  IN
  IF ~IsOk(parsed) THEN Err("CreateFailed")
  ELSE
  LET contract_code_id == parsed.value
  IN Ok([st EXCEPT
       !.IX_CODE_ID = IF IsSome(result.code_id)
                      THEN @ \cup {<<contract_code_id, contract_id>>} ELSE @,
       !.IX_REV = @ \cup {<<rev, contract_id>>},
       !.IX_CREATED_AT = @ \cup {<<nanos(env.time), contract_id>>},
       !.IX_UPDATED_AT = @ \cup {<<nanos(env.time), contract_id>>},
       !.IX_HEIGHT = @ \cup {<<env.height, contract_id>>},
       !.ID_2_ADDR = MapSave(@, reply_id, contract_addr),
       !.ADDR_2_ID = MapSave(@, contract_addr, reply_id),
       !.METADATA = MapSave(@, contract_addr,
            [id |-> reply_id, code_id |-> contract_code_id, height |-> env.height,
             created_at |-> env.time, updated_at |-> env.time, rev |-> rev])])

\* reply. result is the submessage result: [ok |-> FALSE], or [ok |-> TRUE,
\* contract_addr, code_id] with the `_contract_address` and `code_id`
\* attributes of the instantiate event (None when absent).
reply(st, env, reply_id, result) ==
  IF ~result.ok THEN Err("CreateFailed")
  ELSE IF ~IsSome(result.contract_addr) THEN Ok(st)
  ELSE
  LET contract_id == reply_id
      contract_addr == Unwrap(result.contract_addr)
      rev == 0
  IN
  IF MapHas(st.METADATA, contract_addr) THEN Ok(st)
  ELSE
  LET parsed == IF IsSome(result.code_id) THEN parse_u64(Unwrap(result.code_id))
                ELSE [err |-> "Ok", value |-> 0]
  IN
  IF ~IsOk(parsed) THEN Err("CreateFailed")
  ELSE
  LET contract_code_id == parsed.value
  IN Ok([st EXCEPT
       !.IX_CODE_ID = IF IsSome(result.code_id)
                      THEN @ \cup {<<contract_code_id, contract_id>>} ELSE @,
       !.IX_REV = @ \cup {<<rev, contract_id>>},
       !.IX_CREATED_AT = @ \cup {<<nanos(env.time), contract_id>>},
       !.IX_UPDATED_AT = @ \cup {<<nanos(env.time), contract_id>>},
       !.IX_HEIGHT = @ \cup {<<env.height, contract_id>>},
       !.ID_2_ADDR = MapSave(@, reply_id, contract_addr),
       !.ADDR_2_ID = MapSave(@, contract_addr, reply_id),
       !.METADATA = MapSave(@, contract_addr,
            [id |-> reply_id, code_id |-> contract_code_id, height |-> env.height,
             created_at |-> env.time, updated_at |-> env.time, rev |-> rev])])

\* ---------------------------------------------------------------- update.rs
IndexPrefix(k, v) == <<k, v>>

\* update_index_metadata, had it recorded the key without the time
update_index_metadata_keeps_time(st, env, map, slot, contract_id, prefix) ==
  IF ~MapHas(st[map], slot) THEN Err("InvalidIndexSlot")
  ELSE Ok([st EXCEPT ![map] = MapSave(@, slot,
             [st[map][slot] EXCEPT !.updated_key = Some(<<prefix, contract_id>>)])])

update_index_metadata(st, env, map, slot, contract_id, prefix) ==
  IF ~MapHas(st[map], slot) THEN Err("InvalidIndexSlot")
  ELSE Ok([st EXCEPT ![map] = MapSave(@, slot,
             [st[map][slot] EXCEPT !.updated_at = Some(env.time),
                                   !.updated_key = Some(<<prefix, contract_id>>)])])

\* the common body of update_u64_index .. update_bool_index: `table` is the
\* table bank get_*_index resolves, size_map the map handed to
\* increment_index_size, meta_map the map handed to update_index_metadata
update_table(st, env, table, size_map, meta_map, slot, some_old_val, new_key, prefix, id) ==
  IF get_index(slot) # "Ok" THEN Err(get_index(slot))
  ELSE
  LET r1 == IF IsSome(some_old_val)
            THEN Ok([st EXCEPT ![table][slot] = @ \ {<<Unwrap(some_old_val), id>>}])
            ELSE increment_index_size(st, size_map, slot)
  IN
  IF ~IsOk(r1) THEN r1
  ELSE update_index_metadata(
         [r1.st EXCEPT ![table][slot] = @ \cup {<<new_key, id>>}],
         env, meta_map, slot, id, prefix)

update_u64_index(st, env, slot, some_old_val, new_val, id) ==
  update_table(st, env, "IX_U64", "IX_META_U64", "IX_META_U64", slot, some_old_val,
               new_val, IndexPrefix("Uint64", new_val), id)

update_u128_index(st, env, slot, some_old_val, new_val, id) ==
  update_table(st, env, "IX_U128", "IX_META_U128", "IX_META_U128", slot, some_old_val,
               new_val, IndexPrefix("Uint128", new_val), id)

update_text_index(st, env, slot, some_old_val, new_val, id) ==
  update_table(st, env, "IX_TEXT", "IX_META_STRING", "IX_META_STRING", slot, some_old_val,
               new_val, IndexPrefix("Text", new_val), id)

update_timestamp_index(st, env, slot, some_old_val, new_val, id) ==
  update_table(st, env, "IX_TS", "IX_META_TIMESTAMP", "IX_META_TIMESTAMP", slot,
               some_old_val, nanos(new_val), IndexPrefix("Timestamp", nanos(new_val)), id)

\* update_bool_index hands IX_META_STRING to increment_index_size
update_bool_index(st, env, slot, some_old_val, new_val, id) ==
  update_table(st, env, "IX_BOOL", "IX_META_STRING", "IX_META_BOOL", slot, some_old_val,
               bool_to_u8(new_val), IndexPrefix("Boolean", bool_to_u8(new_val)), id)

\* one arm of update's `match u.clone()`: result [err, st, keys]. The Boolean
\* arm stores the new value in ix_keys.timestamp.
update_value(st, env, ix_keys, u, contract_id) ==
  LET slot == u.slot
      value == u.value
  IN
  IF slot >= SLOT_COUNT THEN Err("SlotOutOfBounds")
  ELSE
  LET r == CASE u.kind = "Uint64" ->
                  update_u64_index(st, env, slot, ix_keys.uint64[slot], value, contract_id)
             [] u.kind = "Text" ->
                  update_text_index(st, env, slot, ix_keys.text[slot], value, contract_id)
             [] u.kind = "Timestamp" ->
                  update_timestamp_index(st, env, slot, ix_keys.timestamp[slot], value, contract_id)
             [] u.kind = "Boolean" ->
                  update_bool_index(st, env, slot, ix_keys.boolean[slot], value, contract_id)
             [] u.kind = "Uint128" ->
                  update_u128_index(st, env, slot, ix_keys.uint128[slot], value, contract_id)
      keys == CASE u.kind = "Uint64" -> [ix_keys EXCEPT !.uint64[slot] = Some(value)]
                [] u.kind = "Text" -> [ix_keys EXCEPT !.text[slot] = Some(value)]
                [] u.kind = "Timestamp" -> [ix_keys EXCEPT !.timestamp[slot] = Some(nanos(value))]
                [] u.kind = "Boolean" -> [ix_keys EXCEPT !.timestamp[slot] = Some(bool_to_u8(value))]
                [] u.kind = "Uint128" -> [ix_keys EXCEPT !.uint128[slot] = Some(value)]
  IN IF ~IsOk(r) THEN r ELSE [err |-> "Ok", st |-> r.st, keys |-> keys]

\* update's loop over index_updates
RECURSIVE update_values(_, _, _, _, _)
update_values(st, env, ix_keys, updates, contract_id) ==
  IF updates = <<>> THEN [err |-> "Ok", st |-> st, keys |-> ix_keys]
  ELSE LET r == update_value(st, env, ix_keys, Head(updates), contract_id)
       IN IF ~IsOk(r) THEN r
          ELSE update_values(r.st, env, r.keys, Tail(updates), contract_id)

\* update, had it skipped a built-in index whose old entry is missing instead
\* of returning NotInIndex
update_skips_missing_entry(st, env, sender, index_updates) ==
  LET contract_addr == sender
  IN
  IF ~owns_contract(st, contract_addr) THEN Err("NotAuthorized")
  ELSE
  LET g == get_contract_id(st, contract_addr)
  IN
  IF ~IsOk(g) THEN Err(g.err)
  ELSE
  LET contract_id == g.id
      meta == st.METADATA[contract_addr]
      st1 == [st EXCEPT
                !.IX_UPDATED_AT =
                   IF <<nanos(meta.updated_at), contract_id>> \in @
                   THEN (@ \ {<<nanos(meta.updated_at), contract_id>>})
                          \cup {<<nanos(env.time), contract_id>>}
                   ELSE @,
                !.IX_REV =
                   IF <<meta.rev, contract_id>> \in @
                   THEN (@ \ {<<meta.rev, contract_id>>}) \cup {<<meta.rev + 1, contract_id>>}
                   ELSE @,
                !.METADATA = MapSave(@, contract_addr,
                     [meta EXCEPT !.updated_at = env.time, !.rev = @ + 1])]
  IN
  IF ~IsSome(index_updates) THEN Ok(st1)
  ELSE IF ~MapHas(st1.ID_2_INDEXED_VALUES, contract_id) THEN Err("NotFound")
  ELSE
  LET r == update_values(st1, env, st1.ID_2_INDEXED_VALUES[contract_id],
                         Unwrap(index_updates), contract_id)
  IN IF ~IsOk(r) THEN Err(r.err)
     ELSE Ok([r.st EXCEPT !.ID_2_INDEXED_VALUES = MapSave(@, contract_id, r.keys)])

\* update, had it answered a sender without metadata with success in place
\* of NotAuthorized
update_accepts_unregistered(st, env, sender, index_updates) ==
  LET contract_addr == sender
  IN
  IF ~owns_contract(st, contract_addr) THEN Ok(st)
  ELSE
  LET g == get_contract_id(st, contract_addr)
  IN
  IF ~IsOk(g) THEN Err(g.err)
  ELSE
  LET contract_id == g.id
      meta == st.METADATA[contract_addr]
  IN
  IF <<nanos(meta.updated_at), contract_id>> \notin st.IX_UPDATED_AT THEN Err("NotInIndex")
  ELSE IF <<meta.rev, contract_id>> \notin st.IX_REV THEN Err("NotInIndex")
  ELSE
  LET st1 == [st EXCEPT
                !.IX_UPDATED_AT = (@ \ {<<nanos(meta.updated_at), contract_id>>})
                                    \cup {<<nanos(env.time), contract_id>>},
                !.IX_REV = (@ \ {<<meta.rev, contract_id>>}) \cup {<<meta.rev + 1, contract_id>>},
                !.METADATA = MapSave(@, contract_addr,
                     [meta EXCEPT !.updated_at = env.time, !.rev = @ + 1])]
  IN
  IF ~IsSome(index_updates) THEN Ok(st1)
  ELSE IF ~MapHas(st1.ID_2_INDEXED_VALUES, contract_id) THEN Err("NotFound")
  ELSE
  LET r == update_values(st1, env, st1.ID_2_INDEXED_VALUES[contract_id],
                         Unwrap(index_updates), contract_id)
  IN IF ~IsOk(r) THEN Err(r.err)
     ELSE Ok([r.st EXCEPT !.ID_2_INDEXED_VALUES = MapSave(@, contract_id, r.keys)])

\* update: the sender is the managed contract
\* update, had it left the revision of the metadata alone when no slot values
\* are given
update_rev_only_with_values(st, env, sender, index_updates) ==
  LET contract_addr == sender
  IN
  IF ~owns_contract(st, contract_addr) THEN Err("NotAuthorized")
  ELSE
  LET g == get_contract_id(st, contract_addr)
  IN
  IF ~IsOk(g) THEN Err(g.err)
  ELSE
  LET contract_id == g.id
      meta == st.METADATA[contract_addr]
  IN
  IF <<nanos(meta.updated_at), contract_id>> \notin st.IX_UPDATED_AT THEN Err("NotInIndex")
  ELSE IF <<meta.rev, contract_id>> \notin st.IX_REV THEN Err("NotInIndex")
  ELSE
  LET st1 == [st EXCEPT
                !.IX_UPDATED_AT = (@ \ {<<nanos(meta.updated_at), contract_id>>})
                                    \cup {<<nanos(env.time), contract_id>>},
                !.IX_REV = (@ \ {<<meta.rev, contract_id>>}) \cup {<<meta.rev + 1, contract_id>>},
                !.METADATA = MapSave(@, contract_addr,
                     [meta EXCEPT !.updated_at = env.time,
                                  !.rev = IF IsSome(index_updates) THEN @ + 1 ELSE @])]
  IN
  IF ~IsSome(index_updates) THEN Ok(st1)
  ELSE IF ~MapHas(st1.ID_2_INDEXED_VALUES, contract_id) THEN Err("NotFound")
  ELSE
  LET r == update_values(st1, env, st1.ID_2_INDEXED_VALUES[contract_id],
                         Unwrap(index_updates), contract_id)
  IN IF ~IsOk(r) THEN Err(r.err)
     ELSE Ok([r.st EXCEPT !.ID_2_INDEXED_VALUES = MapSave(@, contract_id, r.keys)])

update(st, env, sender, index_updates) ==
  LET contract_addr == sender
  IN
  IF ~owns_contract(st, contract_addr) THEN Err("NotAuthorized")
  ELSE
  LET g == get_contract_id(st, contract_addr)
  IN
  IF ~IsOk(g) THEN Err(g.err)
  ELSE
  LET contract_id == g.id
      meta == st.METADATA[contract_addr]
  IN
  IF <<nanos(meta.updated_at), contract_id>> \notin st.IX_UPDATED_AT THEN Err("NotInIndex")
  ELSE IF <<meta.rev, contract_id>> \notin st.IX_REV THEN Err("NotInIndex")
  ELSE
  LET st1 == [st EXCEPT
                !.IX_UPDATED_AT = (@ \ {<<nanos(meta.updated_at), contract_id>>})
                                    \cup {<<nanos(env.time), contract_id>>},
                !.IX_REV = (@ \ {<<meta.rev, contract_id>>}) \cup {<<meta.rev + 1, contract_id>>},
                !.METADATA = MapSave(@, contract_addr,
                     [meta EXCEPT !.updated_at = env.time, !.rev = @ + 1])]
  IN
  IF ~IsSome(index_updates) THEN Ok(st1)
  ELSE IF ~MapHas(st1.ID_2_INDEXED_VALUES, contract_id) THEN Err("NotFound")
  ELSE
  LET r == update_values(st1, env, st1.ID_2_INDEXED_VALUES[contract_id],
                         Unwrap(index_updates), contract_id)
  IN IF ~IsOk(r) THEN Err(r.err)
     ELSE Ok([r.st EXCEPT !.ID_2_INDEXED_VALUES = MapSave(@, contract_id, r.keys)])

\* ---------------------------------------------------------------- remove.rs
\* one of remove's four loops `for (i, some_value) in prefixes.<k>.iter()`,
\* from slot i on: result [err, st]
RECURSIVE remove_slots(_, _, _, _, _, _, _)
remove_slots(st, table, size_map, values, contract_id, i, wraps) ==
  IF i >= SLOT_COUNT THEN Ok(st)
  ELSE IF ~IsSome(values[i]) THEN remove_slots(st, table, size_map, values, contract_id, i + 1, wraps)
  ELSE
  LET slot == i
  IN
  IF get_index(slot) # "Ok" THEN Err(get_index(slot))
  ELSE
  LET r == decrement_index_size(
             [st EXCEPT ![table][slot] = @ \ {<<Unwrap(values[i]), contract_id>>}],
             size_map, slot, wraps)
  IN IF ~IsOk(r) THEN r
     ELSE remove_slots(r.st, table, size_map, values, contract_id, i + 1, wraps)

\* remove's loops over prefixes.uint64, .text, .timestamp and .boolean
\* (there is no loop over prefixes.uint128). remove.rs names the metadata
\* maps UINT64_INDEX_METADATA, TEXT_INDEX_METADATA, TS_INDEX_METADATA and
\* BOOL_INDEX_METADATA: the maps state.rs declares as IX_META_U64,
\* IX_META_STRING, IX_META_TIMESTAMP and IX_META_BOOL.
remove_custom(st, prefixes, contract_id, wraps) ==
  LET r1 == remove_slots(st, "IX_U64", "IX_META_U64", prefixes.uint64, contract_id, 0, wraps)
  IN IF ~IsOk(r1) THEN r1 ELSE
  LET r2 == remove_slots(r1.st, "IX_TEXT", "IX_META_STRING", prefixes.text, contract_id, 0, wraps)
  IN IF ~IsOk(r2) THEN r2 ELSE
  LET r3 == remove_slots(r2.st, "IX_TS", "IX_META_TIMESTAMP", prefixes.timestamp, contract_id, 0, wraps)
  IN IF ~IsOk(r3) THEN r3 ELSE
  remove_slots(r3.st, "IX_BOOL", "IX_META_BOOL", prefixes.boolean, contract_id, 0, wraps)

\* a remove that leaves the item's entry in IX_REV: the variant of
\* remove_builtin that C7_RemoveUnregisters tells from the code's
remove_builtin_keeps_rev(st, meta, contract_id) ==
  [st EXCEPT !.IX_CREATED_AT = @ \ {<<nanos(meta.created_at), contract_id>>},
             !.IX_UPDATED_AT = @ \ {<<nanos(meta.updated_at), contract_id>>},
             !.IX_HEIGHT = @ \ {<<meta.height, contract_id>>},
             !.IX_CODE_ID = @ \ {<<meta.code_id, contract_id>>}]

\* remove's deletions from the built-in indices
remove_builtin(st, meta, contract_id) ==
  [st EXCEPT !.IX_CREATED_AT = @ \ {<<nanos(meta.created_at), contract_id>>},
             !.IX_UPDATED_AT = @ \ {<<nanos(meta.updated_at), contract_id>>},
             !.IX_REV = @ \ {<<meta.rev, contract_id>>},
             !.IX_HEIGHT = @ \ {<<meta.height, contract_id>>},
             !.IX_CODE_ID = @ \ {<<meta.code_id, contract_id>>}]

\* remove's unbinding of the address and the id
remove_binding(st, contract_addr, contract_id) ==
  [st EXCEPT !.ADDR_2_ID = MapRemove(@, contract_addr),
             !.ID_2_ADDR = MapRemove(@, contract_id)]

\* a remove that leaves COUNT as it is
remove_count_forgotten(st) == st

\* remove's COUNT.update(count - 1)
remove_count(st) == [st EXCEPT !.COUNT = @ - 1]

\* remove: the authorization is asked for contract_addr, not for the sender
remove(st, contract_addr, acl_reply, wraps) ==
  IF ~is_allowed(st, contract_addr, "remove", acl_reply) THEN Err("NotAuthorized")
  ELSE
  LET g == get_contract_id(st, contract_addr)
  IN
  IF ~IsOk(g) THEN Err(g.err)
  ELSE IF ~MapHas(st.METADATA, contract_addr) THEN Err("NotFound")
  ELSE IF ~MapHas(st.ID_2_INDEXED_VALUES, g.id) THEN Err("NotFound")
  ELSE
  LET contract_id == g.id
      meta == st.METADATA[contract_addr]
      prefixes == st.ID_2_INDEXED_VALUES[contract_id]
      r == remove_custom(remove_binding(st, contract_addr, contract_id),
                         prefixes, contract_id, wraps)
  IN
  IF ~IsOk(r) THEN r
  ELSE IF r.st.COUNT = 0 /\ ~wraps THEN Err("panic")
  ELSE Ok(remove_count(remove_builtin(r.st, meta, contract_id)))

\* --------------------------------------------------------------- set_acl.rs
set_acl(st, sender, acl_contract_addr, acl_reply) ==
  IF ~is_allowed(st, sender, "set_acl", acl_reply) THEN Err("NotAuthorized")
  ELSE Ok([st EXCEPT !.ACL_CONTRACT_ADDR = Some(acl_contract_addr)])

\* ---------------------------------------------------------- rename_index.rs
\* update_index_name on the metadata map stored in field `map`: result
\* [err, st, old_name, new_name]; an absent name reads as the empty string
update_index_name(st, map, slot, name) ==
  IF ~MapHas(st[map], slot) THEN Err("GenericErr")
  ELSE LET meta == st[map][slot]
       IN [err |-> "Ok",
           st |-> [st EXCEPT ![map] = MapSave(@, slot, [meta EXCEPT !.name = name])],
           old_name |-> IF IsSome(meta.name) THEN Unwrap(meta.name) ELSE "",
           new_name |-> IF IsSome(name) THEN Unwrap(name) ELSE ""]

\* rename_index, had it reset the size of the record it renames
rename_index_resets_size(st, sender, name, acl_reply) ==
  IF ~is_allowed(st, sender, "rename_index", acl_reply) THEN Err("NotAuthorized")
  ELSE IF name.slot >= SLOT_COUNT THEN Err("SlotOutOfBounds")
  ELSE LET r == update_index_name(st, MetaField(name.kind), name.slot, name.name)
       IN IF ~IsOk(r) THEN r
          ELSE [r EXCEPT !.st[MetaField(name.kind)][name.slot].size = 0]

\* rename_index: name is an IndexSlotName [kind, slot, name]
rename_index(st, sender, name, acl_reply) ==
  IF ~is_allowed(st, sender, "rename_index", acl_reply) THEN Err("NotAuthorized")
  ELSE IF name.slot >= SLOT_COUNT THEN Err("SlotOutOfBounds")
  ELSE update_index_name(st, MetaField(name.kind), name.slot, name.name)

\* ----------------------------------------------- update_allowed_code_ids.rs
update_allowed_code_ids(st, sender, code_ids, acl_reply) ==
  IF ~is_allowed(st, sender, "update_allowed_code_ids", acl_reply) THEN Err("NotAuthorized")
  ELSE Ok([st EXCEPT !.ALLOWED_CODE_IDS = SeqToSet(code_ids)])

\* ------------------------------------------------------------ query/read.rs
\* the addresses in the order of their bytes, which is the order of the keys
\* of a Map<Addr, _>
AddrOrder ==
  <<"acl", "c1", "c10", "c11", "c12", "c13", "c14", "c15", "c16", "c17",
    "c18", "c19", "c2", "c20", "c21", "c22", "c23", "c24", "c25", "c26",
    "c27", "c28", "c29", "c3", "c30", "c31", "c32", "c33", "c34", "c35",
    "c36", "c37", "c38", "c39", "c4", "c40", "c41", "c42", "c43", "c44",
    "c45", "c46", "c47", "c48", "c49", "c5", "c50", "c51", "c52", "c53",
    "c54", "c55", "c56", "c57", "c58", "c59", "c6", "c60", "c7", "c8",
    "c9", "creator", "stranger">>

\* the strings in the order of the keys of a Map<(String, ContractID), _> or a
\* Map<(Addr, ContractID), _>: a compound key carries the length of its first
\* part before the part's bytes, so shorter strings come first
PrefixOrder ==
  <<"a", "b", "c1", "c2", "c3", "c4", "c5", "c6", "c7", "c8",
    "c9", "acl", "c10", "c11", "c12", "c13", "c14", "c15", "c16", "c17",
    "c18", "c19", "c20", "c21", "c22", "c23", "c24", "c25", "c26", "c27",
    "c28", "c29", "c30", "c31", "c32", "c33", "c34", "c35", "c36", "c37",
    "c38", "c39", "c40", "c41", "c42", "c43", "c44", "c45", "c46", "c47",
    "c48", "c49", "c50", "c51", "c52", "c53", "c54", "c55", "c56", "c57",
    "c58", "c59", "c60", "creator", "stranger">>

\* the position of a string in a sequence that lists it
Rank(order, x) == CHOOSE i \in 1..Len(order) : order[i] = x

\* ContractID::MAX = u64::MAX, held as its representative nearest 0
ContractID_MAX == 0 - 1

\* the order of u64 on representatives: the negative ones stand for the
\* values from 2^63 up
U64Less(a, b) == IF (a < 0) = (b < 0) THEN a < b ELSE b < 0

\* the order of the compound keys (value, id) of a Map<(u64, ContractID), _>
KeyLess(k1, k2) == U64Less(k1[1], k2[1]) \/ (k1[1] = k2[1] /\ U64Less(k1[2], k2[2]))

\* cw_storage_plus::Bound and PrefixBound
Inclusive(k) == [kind |-> "Inclusive", key |-> k]
Exclusive(k) == [kind |-> "Exclusive", key |-> k]

\* key k lies within the optional bounds min and max of Map::range
InRange(k, min, max) ==
  /\ IsSome(min) =>
       \/ KeyLess(Unwrap(min).key, k)
       \/ (Unwrap(min).kind = "Inclusive" /\ k = Unwrap(min).key)
  /\ IsSome(max) =>
       \/ KeyLess(k, Unwrap(max).key)
       \/ (Unwrap(max).kind = "Inclusive" /\ k = Unwrap(max).key)

\* prefix x lies within the optional prefix bounds of Map::prefix_range
InPrefixRange(x, min, max) ==
  /\ IsSome(min) =>
       \/ U64Less(Unwrap(min).key, x)
       \/ (Unwrap(min).kind = "Inclusive" /\ x = Unwrap(min).key)
  /\ IsSome(max) =>
       \/ U64Less(x, Unwrap(max).key)
       \/ (Unwrap(max).kind = "Inclusive" /\ x = Unwrap(max).key)

\* the keys of S in the storage's (ascending) order
RECURSIVE SortKeys(_)
SortKeys(S) ==
  IF S = {} THEN <<>>
  ELSE LET m == CHOOSE x \in S : \A y \in S \ {x} : KeyLess(x, y)
       IN <<m>> \o SortKeys(S \ {m})

Reverse(q) == [i \in 1..Len(q) |-> q[Len(q) + 1 - i]]

\* the iterator a storage scan of the keys S yields in `order`
Iterate(S, order) == IF order = "Ascending" THEN SortKeys(S) ELSE Reverse(SortKeys(S))

\* Map::range and Map::prefix_range over a table of keys (value, id)
range(table, min, max, order) == Iterate({k \in table : InRange(k, min, max)}, order)
prefix_range(table, min, max, order) ==
  Iterate({k \in table : InPrefixRange(k[1], min, max)}, order)

\* Iterator::take
take(q, n) == SubSeq(q, 1, IF n < Len(q) THEN n ELSE Len(q))

\* collect with paginate_u64_index's parse_fn: (x, id) -> (x.to_string(), id)
collect(iter, limit) ==
  LET page == take(iter, limit)
  IN [i \in 1..Len(page) |-> <<to_string(page[i][1]), page[i][2]>>]

\* the bounds, had Equals taken its upper bound as exclusive
u64_bounds_equals_exclusive(equals, between) ==
  IF IsSome(equals)
  THEN [start |-> equals, stop |-> equals, is_exclusive |-> TRUE]
  ELSE IF IsSome(between)
       THEN [start |-> Unwrap(between)[1], stop |-> Unwrap(between)[2], is_exclusive |-> TRUE]
       ELSE [start |-> None, stop |-> None, is_exclusive |-> TRUE]

\* the bounds, had Between taken its upper bound as inclusive
u64_bounds_upper_inclusive(equals, between) ==
  IF IsSome(equals)
  THEN [start |-> equals, stop |-> equals, is_exclusive |-> FALSE]
  ELSE IF IsSome(between)
       THEN [start |-> Unwrap(between)[1], stop |-> Unwrap(between)[2], is_exclusive |-> FALSE]
       ELSE [start |-> None, stop |-> None, is_exclusive |-> TRUE]

\* the (start, stop, is_exclusive) paginate_u64_index derives from its bounds
u64_bounds(equals, between) ==
  IF IsSome(equals)
  THEN [start |-> equals, stop |-> equals, is_exclusive |-> FALSE]
  ELSE IF IsSome(between)
       THEN [start |-> Unwrap(between)[1], stop |-> Unwrap(between)[2], is_exclusive |-> TRUE]
       ELSE [start |-> None, stop |-> None, is_exclusive |-> TRUE]

\* the iterator of paginate_u64_index
u64_iter(table, equals, between, order, cursor) ==
  LET b == u64_bounds(equals, between)
  IN
  IF IsSome(cursor)
  THEN LET x == Unwrap(cursor)[1]
           id == Unwrap(cursor)[2]
           parsed == parse_u64(x)
           start == IF IsOk(parsed) THEN Some(Exclusive(<<parsed.value, id>>)) ELSE None
           stop == IF IsSome(b.stop)
                   THEN Some(IF b.is_exclusive
                             THEN Exclusive(<<Unwrap(b.stop), 0>>)
                             ELSE Inclusive(<<Unwrap(b.stop), ContractID_MAX>>))
                   ELSE None
       IN IF order = "Ascending"
          THEN range(table, start, stop, order)
          ELSE range(table, stop, start, order)
  ELSE prefix_range(table,
         IF IsSome(b.start) THEN Some(Inclusive(Unwrap(b.start))) ELSE None,
         IF IsSome(b.stop)
         THEN Some(IF b.is_exclusive THEN Exclusive(Unwrap(b.stop))
                   ELSE Inclusive(Unwrap(b.stop)))
         ELSE None,
         order)

paginate_u64_index(table, equals, between, order, limit, cursor) ==
  collect(u64_iter(table, equals, between, order, cursor), limit)

\* paginate_ts_index: the bounds are Timestamps, compared by their nanos
paginate_ts_index(table, equals, between, order, limit, raw_cursor) ==
  paginate_u64_index(table,
    IF IsSome(equals) THEN Some(nanos(Unwrap(equals))) ELSE None,
    IF IsSome(between)
    THEN Some(<<IF IsSome(Unwrap(between)[1]) THEN Some(nanos(Unwrap(Unwrap(between)[1]))) ELSE None,
                IF IsSome(Unwrap(between)[2]) THEN Some(nanos(Unwrap(Unwrap(between)[2]))) ELSE None>>)
    ELSE None,
    order, limit, raw_cursor)

\* str::parse::<u128>: [err, value]
parse_u128(s) ==
  IF s # <<>> /\ \A i \in 1..Len(s) : IsDigitChar(s[i])
  THEN [err |-> "Ok", value |-> DigitsValue(s)]
  ELSE Err("ParseIntError")

\* paginate_u128_index
paginate_u128_index(table, equals, between, order, limit, cursor) ==
  LET b == u64_bounds(equals, between)
      iter ==
        IF IsSome(cursor)
        THEN LET x == Unwrap(cursor)[1]
                 id == Unwrap(cursor)[2]
                 parsed == parse_u128(x)
                 start == IF IsOk(parsed) THEN Some(Exclusive(<<parsed.value, id>>)) ELSE None
                 stop == IF IsSome(b.stop)
                         THEN Some(IF b.is_exclusive
                                   THEN Exclusive(<<Unwrap(b.stop), 0>>)
                                   ELSE Inclusive(<<Unwrap(b.stop), ContractID_MAX>>))
                         ELSE None
             IN IF order = "Ascending"
                THEN range(table, start, stop, order)
                ELSE range(table, stop, start, order)
        ELSE prefix_range(table,
               IF IsSome(b.start) THEN Some(Inclusive(Unwrap(b.start))) ELSE None,
               IF IsSome(b.stop)
               THEN Some(IF b.is_exclusive THEN Exclusive(Unwrap(b.stop))
                         ELSE Inclusive(Unwrap(b.stop)))
               ELSE None,
               order)
  IN collect(iter, limit)

\* str::to_lowercase on the characters a cursor of a Boolean index can hold
to_lowercase(s) ==
  [i \in 1..Len(s) |->
     CASE s[i] = "F" -> "f" [] s[i] = "A" -> "a" [] s[i] = "L" -> "l"
       [] s[i] = "S" -> "s" [] s[i] = "E" -> "e" [] OTHER -> s[i]]

\* paginate_bool_index: the table's keys are (u8, id)
paginate_bool_index(table, start, stop, order, limit, raw_cursor) ==
  LET iter ==
        IF IsSome(raw_cursor)
        THEN LET x == Unwrap(raw_cursor)[1]
                 id == Unwrap(raw_cursor)[2]
                 bool_binary == IF ~(to_lowercase(x) = <<"f", "a", "l", "s", "e">> \/ x = <<"0">>)
                                THEN 1 ELSE 0
                 start_b == Some(Exclusive(<<bool_binary, id>>))
                 stop_b == IF IsSome(stop)
                           THEN Some(Exclusive(<<bool_to_u8(Unwrap(stop)), 0>>))
                           ELSE None
             IN IF order = "Ascending"
                THEN range(table, start_b, stop_b, order)
                ELSE range(table, stop_b, start_b, order)
        ELSE prefix_range(table,
               IF IsSome(start) THEN Some(Inclusive(bool_to_u8(Unwrap(start)))) ELSE None,
               IF IsSome(stop) THEN Some(Exclusive(bool_to_u8(Unwrap(stop)))) ELSE None,
               order)
  IN collect(iter, limit)

\* a table keyed by (string, id) as the storage orders it: every string
\* stands at its position in `order`
EncodeKeys(order, table) == {<<Rank(order, k[1]), k[2]>> : k \in table}

\* collect with the parse_fn of the paginators of string keys: the key's
\* string itself
collect_str(order, iter, limit) ==
  LET page == take(iter, limit)
  IN [i \in 1..Len(page) |-> <<order[page[i][1]], page[i][2]>>]

\* Api::addr_validate: [err, value]
addr_validate(x) ==
  IF \E i \in 1..Len(AddrOrder) : AddrOrder[i] = x
  THEN [err |-> "Ok", value |-> x]
  ELSE Err("GenericErr")

\* paginate_metadata: a scan of METADATA, a Map<Addr, ContractMetadata>; the
\* pairs (position of the address, id) stand for its entries
paginate_metadata(map, cursor, equals, between, order, limit) ==
  LET b == u64_bounds(equals, between)
      validated == IF IsSome(cursor) THEN addr_validate(Unwrap(cursor)[1]) ELSE Err("None")
      cur == IF IsOk(validated) THEN Some(validated.value) ELSE b.start
      start_bound == IF IsSome(cur) THEN Some(Inclusive(Rank(AddrOrder, Unwrap(cur)))) ELSE None
      stop_bound == IF IsSome(b.stop)
                    THEN Some(IF b.is_exclusive
                              THEN Exclusive(Rank(AddrOrder, Unwrap(b.stop)))
                              ELSE Inclusive(Rank(AddrOrder, Unwrap(b.stop))))
                    ELSE None
      table == {<<Rank(AddrOrder, a), map[a].id>> : a \in DOMAIN map}
      iter == IF order = "Ascending"
              THEN prefix_range(table, start_bound, stop_bound, order)
              ELSE prefix_range(table, stop_bound, start_bound, order)
  IN collect_str(AddrOrder, iter, limit)

\* paginate_addr_index
paginate_addr_index(map, equals, between, order, limit, cursor) ==
  LET b == u64_bounds(equals, between)
      table == EncodeKeys(PrefixOrder, map)
      iter ==
        IF IsSome(cursor)
        THEN LET x == Unwrap(cursor)[1]
                 id == Unwrap(cursor)[2]
                 validated == addr_validate(x)
                 start == IF IsOk(validated)
                          THEN Some(Exclusive(<<Rank(PrefixOrder, validated.value), id>>))
                          ELSE None
                 stop == IF IsSome(b.stop)
                         THEN Some(IF b.is_exclusive
                                   THEN Exclusive(<<Rank(PrefixOrder, Unwrap(b.stop)), 0>>)
                                   ELSE Inclusive(<<Rank(PrefixOrder, Unwrap(b.stop)), 0>>))
                         ELSE None
             IN IF order = "Ascending"
                THEN range(table, start, stop, order)
                ELSE range(table, stop, start, order)
        ELSE prefix_range(table,
               IF IsSome(b.start) THEN Some(Inclusive(Rank(PrefixOrder, Unwrap(b.start)))) ELSE None,
               IF IsSome(b.stop)
               THEN Some(IF b.is_exclusive THEN Exclusive(Rank(PrefixOrder, Unwrap(b.stop)))
                         ELSE Inclusive(Rank(PrefixOrder, Unwrap(b.stop))))
               ELSE None,
               order)
  IN collect_str(PrefixOrder, iter, limit)

\* paginate_str_index
paginate_str_index(map, equals, between, order, limit, cursor) ==
  LET b == u64_bounds(equals, between)
      table == EncodeKeys(PrefixOrder, map)
      iter ==
        IF IsSome(cursor)
        THEN LET cur == Unwrap(cursor)
                 start == Some(Exclusive(<<Rank(PrefixOrder, cur[1]), cur[2]>>))
                 stop == IF IsSome(b.stop)
                         THEN Some(IF b.is_exclusive
                                   THEN Exclusive(<<Rank(PrefixOrder, Unwrap(b.stop)), 0>>)
                                   ELSE Inclusive(<<Rank(PrefixOrder, Unwrap(b.stop)), 0>>))
                         ELSE None
             IN IF order = "Ascending"
                THEN range(table, start, stop, order)
                ELSE range(table, stop, start, order)
        ELSE prefix_range(table,
               IF IsSome(b.start) THEN Some(Inclusive(Rank(PrefixOrder, Unwrap(b.start)))) ELSE None,
               IF IsSome(b.stop)
               THEN Some(IF b.is_exclusive THEN Exclusive(Rank(PrefixOrder, Unwrap(b.stop)))
                         ELSE Inclusive(Rank(PrefixOrder, Unwrap(b.stop))))
               ELSE None,
               order)
  IN collect_str(PrefixOrder, iter, limit)

\* clamp, had it had no upper end
clamp_min_only(n, lo, hi) == IF n < lo THEN lo ELSE n

\* u32::clamp
clamp(n, lo, hi) == IF n < lo THEN lo ELSE IF n > hi THEN hi ELSE n

\* the `match index_bounds` of read: [err, keys]. index_bounds is a record
\* [target, slot, equals, between]; for IndexBounds::Boolean {slot, start,
\* stop} the field between holds <<start, stop>>
read_keys(st, b, order, limit, cursor) ==
  LET found(keys) == [err |-> "Ok", keys |-> keys]
      u64 == get_u64_index(b.slot)
      text == get_text_index(b.slot)
      timestamp == get_timestamp_index(b.slot)
      bool == get_bool_index(b.slot)
      u128 == get_u128_index(b.slot)
  IN
  CASE b.target = "Address" ->
         found(paginate_metadata(st.METADATA, cursor, b.equals, b.between, order, limit))
    [] b.target = "CreatedBy" ->
         found(paginate_addr_index(st.IX_CREATED_BY, b.equals, b.between, order, limit, cursor))
    [] b.target = "CreatedAt" ->
         found(paginate_ts_index(st.IX_CREATED_AT, b.equals, b.between, order, limit, cursor))
    [] b.target = "UpdatedAt" ->
         found(paginate_ts_index(st.IX_UPDATED_AT, b.equals, b.between, order, limit, cursor))
    [] b.target = "Uint64" ->
         IF u64 # "Ok" THEN Err(u64)
         ELSE found(paginate_u64_index(st.IX_U64[b.slot], b.equals, b.between, order, limit, cursor))
    [] b.target = "Text" ->
         IF text # "Ok" THEN Err(text)
         ELSE found(paginate_str_index(st.IX_TEXT[b.slot], b.equals, b.between, order, limit, cursor))
    [] b.target = "Timestamp" ->
         IF timestamp # "Ok" THEN Err(timestamp)
         ELSE found(paginate_ts_index(st.IX_TS[b.slot], b.equals, b.between, order, limit, cursor))
    [] b.target = "Rev" ->
         found(paginate_u64_index(st.IX_REV, b.equals, b.between, order, limit, cursor))
    [] b.target = "CodeId" ->
         found(paginate_u64_index(st.IX_CODE_ID, b.equals, b.between, order, limit, cursor))
    [] b.target = "Height" ->
         found(paginate_u64_index(st.IX_HEIGHT, b.equals, b.between, order, limit, cursor))
    [] b.target = "Boolean" ->
         IF bool # "Ok" THEN Err(bool)
         ELSE found(paginate_bool_index(st.IX_BOOL[b.slot], b.between[1], b.between[2],
                                        order, limit, cursor))
    [] b.target = "Uint128" ->
         IF u128 # "Ok" THEN Err(u128)
         ELSE found(paginate_u128_index(st.IX_U128[b.slot], b.equals, b.between, order, limit, cursor))

\* read without fields, since and meta: result [err, keys, page, cursor, count]
read(st, index_bounds, desc, raw_limit, cursor) ==
  LET limit == clamp(IF IsSome(raw_limit) THEN Unwrap(raw_limit) ELSE DEFAULT_LIMIT,
                     MIN_LIMIT, MAX_LIMIT)
      order == IF IsSome(desc) /\ Unwrap(desc) THEN "Descending" ELSE "Ascending"
      k == read_keys(st, index_bounds, order, limit, cursor)
  IN
  IF ~IsOk(k) THEN Err(k.err)
  ELSE
  LET keys == k.keys
      ret_cursor == IF keys = <<>> THEN None ELSE Some(keys[Len(keys)])
  IN
  IF \E i \in 1..Len(keys) : ~MapHas(st.ID_2_ADDR, keys[i][2]) THEN Err("NotFound")
  ELSE [err |-> "Ok", keys |-> keys,
        page |-> [i \in 1..Len(keys) |-> st.ID_2_ADDR[keys[i][2]]],
        cursor |-> ret_cursor, count |-> Len(keys)]

\* ------------------------------------------------------------------- inputs
\* slots the calls of the model name
InSlots == {0}

\* the values of kind k the calls carry: integers 1..n
ValuesOf(k, n) ==
  CASE k = "Text" -> {"a", "b"}
    [] k = "Boolean" -> {TRUE, FALSE}
    [] OTHER -> 1..n

\* IndexSlotValue of the kinds K
SlotValues(K, n) == UNION {[kind : {k}, slot : InSlots, value : ValuesOf(k, n)] : k \in K}

\* Option<Vec<IndexSlotValue>>: absent, or one value
IndexInputs(K, n) == {None} \cup {Some(<<x>>) : x \in SlotValues(K, n)}

\* IndexSlotName list of InstantiateMsg.indices: every kind at every slot
\* the calls name
RECURSIVE SetToSeq(_)
SetToSeq(S) ==
  IF S = {} THEN <<>>
  ELSE LET x == CHOOSE y \in S : TRUE IN <<x>> \o SetToSeq(S \ {x})

AllIndexNames == SetToSeq([kind : Kinds, slot : InSlots, name : {None}])

InstantiateMsgs ==
  [acl_address : {None, Some(AclAddr)}, default_label : {Some("repo")},
   default_code_id : {None}, code_ids : {<<1>>}, indices : {Some(AllIndexNames)}]

\* ExecuteMsg::Create carrying index values of I and tags of T
CreateMsgs(I, T) ==
  [code_id : {None, Some(2)}, label : {None}, indices : I,
   save_as : {None}, tags : T, relationships : {None}]

NoTags == {None}
TagX == {None, Some(<<"x">>)}

Senders == {Creator, Stranger}

\* --------------------------------------------------------------------- Init
\* the state instantiate leaves; no submessage is in flight, no contract has
\* been instantiated by the chain, no page has been read
Init ==
  /\ \E msg \in InstantiateMsgs :
       LET r == initialize(EmptyStore, Creator, msg)
       IN IsOk(r) /\ Installed(r.st)
  /\ env_block = [time |-> 1, height |-> 10]
  /\ instances = 0
  /\ pending = None
  /\ rd = None

\* a call that returned r: its writes are committed iff it returned Ok
Return(r) == IF IsOk(r) THEN Commit(r.st) ELSE UNCHANGED storeVars

\* ------------------------------------------------------------------ actions
\* execute ExecuteMsg::Create; on Ok the instantiate submessage is in flight
\* and `pending` remembers the storage to restore if the transaction fails
Create(sender, msg, acl_reply) ==
  /\ pending = None
  /\ LET r == create(Store, sender, msg.code_id, msg.label, msg.indices, msg.save_as,
                     msg.tags, msg.relationships, acl_reply)
     IN /\ Return(r)
        /\ pending' = IF IsOk(r)
                      THEN Some([id |-> r.contract_id, code_id |-> r.code_id, saved |-> Store])
                      ELSE None
  /\ UNCHANGED <<env_block, instances, rd>>

\* the reply entry point, called with the result of the instantiate
\* submessage; an Err from reply fails the transaction, which restores the
\* storage of before the create
Reply(ok) ==
  /\ pending # None
  /\ LET p == Unwrap(pending)
         result == IF ok
                   THEN [ok |-> TRUE, contract_addr |-> Some(ContractAddr(instances + 1)),
                         code_id |-> Some(to_string(p.code_id))]
                   ELSE [ok |-> FALSE]
         r == reply(Store, env_block, p.id, result)
     IN /\ IF IsOk(r) THEN Commit(r.st) ELSE Commit(p.saved)
        /\ instances' = IF ok THEN instances + 1 ELSE instances
  /\ pending' = None
  /\ UNCHANGED <<env_block, rd>>

\* execute ExecuteMsg::Update sent by `sender`
Update(sender, values) ==
  /\ pending = None
  /\ Return(update(Store, env_block, sender, values))
  /\ UNCHANGED <<env_block, instances, pending, rd>>

\* execute ExecuteMsg::Remove
Remove(contract_addr, acl_reply, wraps) ==
  /\ pending = None
  /\ Return(remove(Store, contract_addr, acl_reply, wraps))
  /\ UNCHANGED <<env_block, instances, pending, rd>>

\* execute ExecuteMsg::SetAcl
SetAcl(sender, acl_reply) ==
  /\ pending = None
  /\ Return(set_acl(Store, sender, AclAddr, acl_reply))
  /\ UNCHANGED <<env_block, instances, pending, rd>>

\* the chain produces the next block
NewBlock ==
  /\ pending = None
  /\ env_block.time < MaxTime
  /\ env_block' = [time |-> env_block.time + 1, height |-> env_block.height + 1]
  /\ UNCHANGED <<storeVars, instances, pending, rd>>

\* the sender's rev is below the cap (a sender without metadata is not capped)
RevBelow(sender, n) == MapHas(METADATA, sender) => METADATA[sender].rev < n

\* Spec: up to MaxCount items holding uint64 values
U64Only == {"Uint64"}

Next ==
  \/ \E sender \in Senders, msg \in CreateMsgs(IndexInputs(U64Only, RegMaxVal), NoTags), acl_reply \in BOOLEAN :
       COUNT < MaxCount /\ instances < MaxInst /\ Create(sender, msg, acl_reply)
  \/ \E ok \in BOOLEAN : Reply(ok)
  \/ \E sender \in ContractAddrsUpTo(MaxInst) \cup {Stranger}, values \in IndexInputs(U64Only, RegMaxVal) :
       RevBelow(sender, MaxRev) /\ Update(sender, values)
  \/ \E contract_addr \in ContractAddrsUpTo(MaxInst), acl_reply \in BOOLEAN, wraps \in BOOLEAN :
       Remove(contract_addr, acl_reply, wraps)
  \/ \E sender \in Senders, acl_reply \in BOOLEAN : SetAcl(sender, acl_reply)
  \/ NewBlock

Spec == Init /\ [][Next]_vars

\* SpecKinds: one item holding values of every kind
NextKinds ==
  \/ \E sender \in Senders, acl_reply \in BOOLEAN,
        msg \in CreateMsgs(IndexInputs(Kinds, MaxVal), TagX) :
       COUNT < KindsMaxCount /\ instances < KindsMaxInst /\ Create(sender, msg, acl_reply)
  \/ \E ok \in BOOLEAN : Reply(ok)
  \/ \E sender \in ContractAddrsUpTo(KindsMaxInst) \cup {Stranger}, values \in IndexInputs(Kinds, MaxVal) :
       RevBelow(sender, KindsMaxRev) /\ Update(sender, values)
  \/ \E contract_addr \in ContractAddrsUpTo(KindsMaxInst), acl_reply \in BOOLEAN, wraps \in BOOLEAN :
       Remove(contract_addr, acl_reply, wraps)
  \/ \E sender \in Senders, acl_reply \in BOOLEAN : SetAcl(sender, acl_reply)
  \/ NewBlock

SpecKinds == Init /\ [][NextKinds]_vars

\* SpecRead: up to ReadMaxCount items holding uint64 values are created, then
\* the uint64 index of slot 0 is read page by page
ReadValues == {None} \cup {Some(v) : v \in 1..ReadMaxVal}
ReadBetweens == {None} \cup {Some(<<lo, hi>>) : lo \in ReadValues, hi \in ReadValues}
ReadLimits == {None} \cup {Some(n) : n \in 0..ReadMaxLimit}
\* IndexBounds::Uint64 of slot 0
ReadBounds == [target : {"Uint64"}, slot : {0}, equals : ReadValues, between : ReadBetweens]

\* the reader's session after a page: the request, the cursor to follow and
\* the keys of the pages so far
Session(index_bounds, desc, raw_limit, keys, r) ==
  [bounds |-> index_bounds, desc |-> desc, raw_limit |-> raw_limit,
   err |-> r.err,
   cursor |-> IF IsOk(r) THEN r.cursor ELSE None,
   keys |-> IF IsOk(r) THEN keys \o r.keys ELSE keys,
   pages |-> IF IsOk(r) THEN <<r.keys>> ELSE <<>>,
   done |-> ~IsOk(r) \/ r.cursor = None]

\* QueryMsg::Read without a cursor
ReadFirst(index_bounds, desc, raw_limit) ==
  /\ pending = None
  /\ rd = None
  /\ rd' = Some(Session(index_bounds, desc, raw_limit, <<>>,
                        read(Store, index_bounds, desc, raw_limit, None)))
  /\ UNCHANGED <<storeVars, env_block, instances, pending>>

\* QueryMsg::Read with the cursor the previous page returned
ReadNext ==
  /\ rd # None
  /\ ~Unwrap(rd).done
  /\ LET s == Unwrap(rd)
         r == read(Store, s.bounds, s.desc, s.raw_limit, s.cursor)
         n == Session(s.bounds, s.desc, s.raw_limit, s.keys, r)
     IN rd' = Some([n EXCEPT !.pages = s.pages \o @])
  /\ UNCHANGED <<storeVars, env_block, instances, pending>>

NextRead ==
  \/ \E sender \in Senders, msg \in CreateMsgs(IndexInputs(U64Only, ReadMaxVal), NoTags), acl_reply \in BOOLEAN :
       rd = None /\ COUNT < ReadMaxCount /\ Create(sender, msg, acl_reply)
  \/ \E ok \in BOOLEAN : Reply(ok)
  \/ \E index_bounds \in ReadBounds, desc \in {None, Some(FALSE), Some(TRUE)}, raw_limit \in ReadLimits :
       ReadFirst(index_bounds, desc, raw_limit)
  \/ ReadNext

SpecRead == Init /\ [][NextRead]_vars

\* SpecLimit: a registry is filled with LimitMaxItems items, one after the
\* other; at some sizes its uint64 index of slot 0 is read page by page with
\* limits around the defaults
LimitMsg ==
  [code_id |-> None, label |-> None,
   indices |-> Some(<<[kind |-> "Uint64", slot |-> 0, value |-> 1 + (COUNT % 2)]>>),
   save_as |-> None, tags |-> None, relationships |-> None]

LimitCounts == {0, LimitMidItems, LimitMaxItems}
LimitLimits ==
  {None} \cup {Some(n) : n \in {0, MIN_LIMIT, DEFAULT_LIMIT, MAX_LIMIT, MAX_LIMIT + 1, LimitMaxLimit}}
LimitBounds == [target : {"Uint64"}, slot : {0}, equals : {None, Some(1)}, between : {None}]

NextLimit ==
  \/ rd = None /\ COUNT < LimitMaxItems /\ Create(Creator, LimitMsg, TRUE)
  \/ \E ok \in BOOLEAN : Reply(ok)
  \/ \E index_bounds \in LimitBounds, desc \in {None, Some(TRUE)}, raw_limit \in LimitLimits :
       COUNT \in LimitCounts /\ ReadFirst(index_bounds, desc, raw_limit)
  \/ rd # None /\ Len(Unwrap(rd).pages) < LimitMaxPages /\ ReadNext

SpecLimit == Init /\ [][NextLimit]_vars

\* SpecTargets: up to TargetsMaxCount items holding a text value are created,
\* then one of the indices keyed by a string (the addresses of the items,
\* the addresses of their creators, the text of slot 0) is read page by page
Targets == {"Address", "CreatedBy", "Text"}

\* the values the bounds of a read of target t name
TargetValues(t) ==
  CASE t = "Address" -> ContractAddrsUpTo(TargetsMaxCount)
    [] t = "CreatedBy" -> Senders
    [] t = "Text" -> ValuesOf("Text", 0)

OptionOf(S) == {None} \cup {Some(v) : v \in S}

\* IndexBounds of target t at slot 0
IndexBounds(t, equals, lo, hi) ==
  [target |-> t, slot |-> 0, equals |-> equals, between |-> Some(<<lo, hi>>)]

\* the bounds of the reads: every target with every Equals and every Between
\* over its values
TargetsBounds ==
  UNION {{IndexBounds(t, equals, lo, hi) :
            equals \in OptionOf(TargetValues(t)),
            lo \in OptionOf(TargetValues(t)),
            hi \in OptionOf(TargetValues(t))} : t \in Targets}

TargetKinds == {"Text"}

NextTargets ==
  \/ \E sender \in Senders, msg \in CreateMsgs(IndexInputs(TargetKinds, 1), NoTags), acl_reply \in BOOLEAN :
       rd = None /\ COUNT < TargetsMaxCount /\ Create(sender, msg, acl_reply)
  \/ \E ok \in BOOLEAN : Reply(ok)
  \/ \E index_bounds \in TargetsBounds, desc \in {None, Some(TRUE)}, raw_limit \in {None, Some(1)} :
       ReadFirst(index_bounds, desc, raw_limit)
  \/ rd # None /\ Len(Unwrap(rd).pages) < TargetsMaxPages /\ ReadNext

SpecTargets == Init /\ [][NextTargets]_vars

\* SpecDup: one item is created with up to two uint64 values, which may name
\* the same slot, and then updated
DupIndices ==
  IndexInputs(U64Only, MaxVal)
    \cup {Some(<<x, y>>) : x \in SlotValues(U64Only, MaxVal), y \in SlotValues(U64Only, MaxVal)}

NextDup ==
  \/ \E sender \in Senders, msg \in CreateMsgs(DupIndices, NoTags), acl_reply \in BOOLEAN :
       COUNT < DupMaxCount /\ instances < DupMaxCount /\ Create(sender, msg, acl_reply)
  \/ \E ok \in BOOLEAN : Reply(ok)
  \/ \E sender \in ContractAddrsUpTo(DupMaxCount), values \in IndexInputs(U64Only, MaxVal) :
       RevBelow(sender, DupMaxRev) /\ Update(sender, values)

SpecDup == Init /\ [][NextDup]_vars

\* SpecCalls: the registry is instantiated with the metadata of some of the
\* kinds at slot 0; every call records in rd what its caller observes (the
\* call, its input, the error it returned) and the storage it started from.
\* The calls name slot 0 and the first slot out of range.
CallsKinds == {"Uint64", "Text", "Boolean"}
CallsSlots == {0, SLOT_COUNT}

CallsInstantiateMsgs ==
  [acl_address : {None, Some(AclAddr)}, default_label : {Some("repo")},
   default_code_id : {None}, code_ids : {<<1>>},
   indices : {Some(SetToSeq([kind : K, slot : InSlots, name : {None}])) : K \in SUBSET CallsKinds}]

InitCalls ==
  /\ \E msg \in CallsInstantiateMsgs :
       LET r == initialize(EmptyStore, Creator, msg)
       IN IsOk(r) /\ Installed(r.st)
  /\ env_block = [time |-> 1, height |-> 10]
  /\ instances = 0
  /\ pending = None
  /\ rd = None

\* the one value of kind k the calls carry
CallsValue(k) ==
  CASE k = "Text" -> "a"
    [] k = "Boolean" -> TRUE
    [] OTHER -> 1

\* IndexSlotValue of kind k at slot s
SlotValue(k, s) == [kind |-> k, slot |-> s, value |-> CallsValue(k)]

\* Option<Vec<IndexSlotValue>>: absent, one value, or a value of slot 0
\* followed by a value of the slot out of range
CallsIndices ==
  {None}
    \cup {Some(<<SlotValue(k, s)>>) : k \in CallsKinds, s \in CallsSlots}
    \cup {Some(<<SlotValue(k, 0), SlotValue(j, SLOT_COUNT)>>) : k \in CallsKinds, j \in CallsKinds}

\* ExecuteMsg::Create of the calls: every item is tagged and related to an
\* address
CallsCreateMsgs ==
  [code_id : {None}, label : {None}, indices : CallsIndices,
   save_as : {None}, tags : {Some(<<"x">>)},
   relationships : {Some(<<[address |-> Stranger, tag |-> "y"]>>)}]

\* IndexSlotName of the calls of rename_index
CallsNames == [kind : CallsKinds, slot : CallsSlots, name : {None, Some("x")}]

\* IndexBounds of the reads: the index of a kind at a slot, unbounded
\* (IndexBounds::Boolean carries start and stop in place of a pair)
CallsBounds ==
  [target : CallsKinds \ {"Boolean"}, slot : CallsSlots, equals : {None}, between : {None}]
    \cup [target : {"Boolean"}, slot : CallsSlots, equals : {None}, between : {<<None, None>>}]

\* Vec<u64> of the calls of update_allowed_code_ids: with the default code
\* id and without it
CallsCodeIds == {<<1, 2>>, <<2>>}

\* the number of calls recorded so far
Calls == IF rd = None THEN 0 ELSE Unwrap(rd).n

\* the record of a call that returned r
Called(call, sender, allowed, input, r) ==
  rd' = Some([call |-> call, sender |-> sender, allowed |-> allowed, input |-> input,
              err |-> r.err, before |-> Store, n |-> Calls + 1])

CallCreate(sender, msg, acl_reply) ==
  /\ pending = None
  /\ LET r == create(Store, sender, msg.code_id, msg.label, msg.indices, msg.save_as,
                     msg.tags, msg.relationships, acl_reply)
     IN /\ Return(r)
        /\ pending' = IF IsOk(r)
                      THEN Some([id |-> r.contract_id, code_id |-> r.code_id, saved |-> Store])
                      ELSE None
        /\ Called("create", sender, acl_reply, msg, r)
  /\ UNCHANGED <<env_block, instances>>

CallUpdate(sender, values) ==
  /\ pending = None
  /\ LET r == update(Store, env_block, sender, values)
     IN Return(r) /\ Called("update", sender, TRUE, values, r)
  /\ UNCHANGED <<env_block, instances, pending>>

CallRemove(sender, contract_addr, acl_reply, wraps) ==
  /\ pending = None
  /\ LET r == remove(Store, contract_addr, acl_reply, wraps)
     IN Return(r) /\ Called("remove", sender, acl_reply, contract_addr, r)
  /\ UNCHANGED <<env_block, instances, pending>>

CallSetAcl(sender, acl_reply) ==
  /\ pending = None
  /\ LET r == set_acl(Store, sender, AclAddr, acl_reply)
     IN Return(r) /\ Called("set_acl", sender, acl_reply, AclAddr, r)
  /\ UNCHANGED <<env_block, instances, pending>>

CallRenameIndex(sender, name, acl_reply) ==
  /\ pending = None
  /\ LET r == rename_index(Store, sender, name, acl_reply)
     IN /\ Return(r)
        /\ Called("rename_index", sender, acl_reply,
                  [name |-> name, old_name |-> IF IsOk(r) THEN r.old_name ELSE ""], r)
  /\ UNCHANGED <<env_block, instances, pending>>

CallUpdateAllowedCodeIds(sender, code_ids, acl_reply) ==
  /\ pending = None
  /\ LET r == update_allowed_code_ids(Store, sender, code_ids, acl_reply)
     IN Return(r) /\ Called("update_allowed_code_ids", sender, acl_reply, code_ids, r)
  /\ UNCHANGED <<env_block, instances, pending>>

\* QueryMsg::Read: a query commits nothing
CallRead(sender, index_bounds) ==
  /\ pending = None
  /\ Called("read", sender, TRUE, index_bounds, read(Store, index_bounds, None, None, None))
  /\ UNCHANGED <<storeVars, env_block, instances, pending>>

\* the answers the ACL contract can give: without one, is_allowed asks nobody
AclReplies == IF IsSome(ACL_CONTRACT_ADDR) THEN BOOLEAN ELSE {TRUE}

NextCalls ==
  \/ \E sender \in Senders, msg \in CallsCreateMsgs, acl_reply \in AclReplies :
       Calls < CallsMaxCalls /\ COUNT < CallsMaxCount /\ instances < CallsMaxCount
         /\ CallCreate(sender, msg, acl_reply)
  \/ \E ok \in BOOLEAN : Reply(ok)
  \/ \E sender \in ContractAddrsUpTo(CallsMaxCount) \cup {Stranger}, values \in CallsIndices :
       Calls < CallsMaxCalls /\ CallUpdate(sender, values)
  \/ \E sender \in Senders, contract_addr \in ContractAddrsUpTo(CallsMaxCount) \cup {Creator}, acl_reply \in AclReplies, wraps \in BOOLEAN :
       Calls < CallsMaxCalls /\ CallRemove(sender, contract_addr, acl_reply, wraps)
  \/ \E sender \in Senders, acl_reply \in AclReplies :
       Calls < CallsMaxCalls /\ CallSetAcl(sender, acl_reply)
  \/ \E sender \in Senders, name \in CallsNames, acl_reply \in AclReplies :
       Calls < CallsMaxCalls /\ CallRenameIndex(sender, name, acl_reply)
  \/ \E sender \in Senders, code_ids \in CallsCodeIds, acl_reply \in AclReplies :
       Calls < CallsMaxCalls /\ CallUpdateAllowedCodeIds(sender, code_ids, acl_reply)
  \/ \E index_bounds \in CallsBounds :
       Calls < CallsMaxCalls /\ CallRead(Stranger, index_bounds)

SpecCalls == InitCalls /\ [][NextCalls]_vars

\* SpecPresets: up to PresetsMaxCalls creates, each with or without a value
\* and saved or not under one of two preset names, are sent by the creator
\* and by another address; every create records what its caller observes
PresetNames == {"p", "q"}

PresetsCreateMsgs ==
  [code_id : {None}, label : {None}, indices : IndexInputs(U64Only, 1),
   save_as : OptionOf(PresetNames), tags : {None}, relationships : {None}]

NextPresets ==
  \/ \E sender \in Senders, msg \in PresetsCreateMsgs, acl_reply \in AclReplies :
       Calls < PresetsMaxCalls /\ CallCreate(sender, msg, acl_reply)
  \/ \E ok \in BOOLEAN : Reply(ok)

SpecPresets == Init /\ [][NextPresets]_vars

\* =================================================================== claims
\* the table of kind k and slot s, and the entries item id has in it
Table(k, s) == Store[TableField(k)][s]
EntriesOf(table, id) == {e \in table : e[2] = id}

\* the entries ID_2_INDEXED_VALUES records for the table of kind k and slot s
Recorded(k, s) ==
  {<<Unwrap(ID_2_INDEXED_VALUES[id][KeysField(k)][s]), id>> :
     id \in {i \in DOMAIN ID_2_INDEXED_VALUES : IsSome(ID_2_INDEXED_VALUES[i][KeysField(k)][s])}}

\* C1 (sync invariant): between calls, for every kind k and slot s the table
\* of (k, s) contains (v, id) iff ID_2_INDEXED_VALUES[id].k[s] = Some(v)
C1_Sync ==
  pending = None => \A k \in Kinds, s \in Slots : Table(k, s) = Recorded(k, s)

\* C2 (size invariant): between calls, for every kind and every slot that has
\* an IndexMetadata, its size is the number of entries of the slot's table
C2_Size ==
  pending = None =>
    \A k \in Kinds : \A s \in DOMAIN Store[MetaField(k)] :
      Store[MetaField(k)][s].size = Cardinality(Table(k, s))

\* the single scan the pages of a session are compared with: every entry of
\* the table within the session's bounds, in the session's order
FullScan(s) ==
  collect(u64_iter(IX_U64[0], s.bounds.equals, s.bounds.between,
                   IF IsSome(s.desc) /\ Unwrap(s.desc) THEN "Descending" ELSE "Ascending",
                   None),
          Cardinality(IX_U64[0]))

\* C3 (pagination completeness): a read of a uint64 slot index that followed
\* the returned cursors to the end has returned, page after page, exactly
\* the entries of the single scan, in its order
C3_PaginationComplete ==
  (rd # None /\ Unwrap(rd).done /\ Unwrap(rd).err = "Ok") =>
     Unwrap(rd).keys = FullScan(Unwrap(rd))

\* C4 (ids never reused): the id a create allocates is 0 if no create was
\* committed before, and is above every id a committed create allocated
C4_IdsNeverReused ==
  pending # None =>
    LET p == Unwrap(pending)
        earlier == DOMAIN p.saved.ID_2_INDEXED_VALUES
    IN /\ earlier = {} => p.id = 0
       /\ \A i \in earlier : i < p.id

\* C5 (bijective binding): ADDR_2_ID[a] = id iff ID_2_ADDR[id] = a
C5_Bijective ==
  /\ \A a \in DOMAIN ADDR_2_ID :
       ADDR_2_ID[a] \in DOMAIN ID_2_ADDR /\ ID_2_ADDR[ADDR_2_ID[a]] = a
  /\ \A id \in DOMAIN ID_2_ADDR :
       ID_2_ADDR[id] \in DOMAIN ADDR_2_ID /\ ADDR_2_ID[ID_2_ADDR[id]] = id

\* the call remove(contract_addr) succeeds in this step and changes the
\* storage
Removes(contract_addr) ==
  /\ storeVars' # storeVars
  /\ UNCHANGED <<env_block, instances, pending, rd>>
  /\ \E acl_reply \in BOOLEAN, wraps \in BOOLEAN :
       /\ IsOk(remove(Store, contract_addr, acl_reply, wraps))
       /\ Remove(contract_addr, acl_reply, wraps)

\* C6 (round trip): a successful remove of item id deletes every entry
\* (v, id) from the table of every kind and slot that held one, and
\* decrements that slot's size by exactly 1
C6_RoundTrip ==
  [][\A a \in DOMAIN ADDR_2_ID :
       Removes(a) =>
         \A k \in Kinds, s \in Slots :
           EntriesOf(Table(k, s), ADDR_2_ID[a]) # {} =>
             /\ EntriesOf(Table(k, s)', ADDR_2_ID[a]) = {}
             /\ Store[MetaField(k)][s].size - 1 = Store'[MetaField(k)][s].size]_vars

\* C7 (remove unregisters): a successful remove of the item at address a
\* with id deletes (created_at, id), (updated_at, id), (rev, id),
\* (code_id, id) and (height, id) of its metadata from the built-in indices,
\* drops ID_2_ADDR[id] and ADDR_2_ID[a], and decrements COUNT by exactly 1
C7_RemoveUnregisters ==
  [][\A a \in DOMAIN ADDR_2_ID :
       Removes(a) =>
         LET id == ADDR_2_ID[a]
             meta == METADATA[a]
         IN /\ <<nanos(meta.created_at), id>> \notin IX_CREATED_AT'
            /\ <<nanos(meta.updated_at), id>> \notin IX_UPDATED_AT'
            /\ <<meta.rev, id>> \notin IX_REV'
            /\ <<meta.code_id, id>> \notin IX_CODE_ID'
            /\ <<meta.height, id>> \notin IX_HEIGHT'
            /\ id \notin DOMAIN ID_2_ADDR'
            /\ a \notin DOMAIN ADDR_2_ID'
            /\ COUNT' = COUNT - 1]_vars

\* an item has been removed: its metadata is left, its binding and its
\* built-in index entries are gone, and the count is that of the bindings
C7_Removed ==
  \E a \in DOMAIN METADATA :
    /\ a \notin DOMAIN ADDR_2_ID
    /\ METADATA[a].id \notin DOMAIN ID_2_ADDR
    /\ <<METADATA[a].rev, METADATA[a].id>> \notin IX_REV
    /\ <<nanos(METADATA[a].created_at), METADATA[a].id>> \notin IX_CREATED_AT
    /\ pending = None
    /\ COUNT = Cardinality(DOMAIN ADDR_2_ID)

\* C8 (remove with a tag): a successful remove of an item that has an entry
\* (value, id) in the uint64 table of a slot and the tag "x" leaves the table
\* without (value, id) and TAGGED_CONTRACT_IDS without ("x", id), and
\* decrements the slot's size and the number of items tagged "x" by 1
C8_RemoveTagged ==
  [][\A a \in DOMAIN ADDR_2_ID :
       (Removes(a) /\ <<"x", ADDR_2_ID[a]>> \in TAGGED_CONTRACT_IDS) =>
         \A s \in Slots :
           EntriesOf(IX_U64[s], ADDR_2_ID[a]) # {} =>
             /\ EntriesOf(IX_U64'[s], ADDR_2_ID[a]) = {}
             /\ IX_META_U64[s].size - 1 = IX_META_U64'[s].size
             /\ <<"x", ADDR_2_ID[a]>> \notin TAGGED_CONTRACT_IDS'
             /\ Cardinality({e \in TAGGED_CONTRACT_IDS : e[1] = "x"}) - 1
                  = Cardinality({e \in TAGGED_CONTRACT_IDS' : e[1] = "x"})]_vars

\* the call update(<<u>>) sent by `sender` succeeds in this step and changes
\* the storage
Updates(sender, u) ==
  /\ storeVars' # storeVars
  /\ UNCHANGED <<env_block, instances, pending, rd>>
  /\ IsOk(update(Store, env_block, sender, Some(<<u>>)))
  /\ Update(sender, Some(<<u>>))

\* C9 (update replaces): after a successful update of slot s of item id to
\* value v, the slot's table contains (v, id) and none of the entries
\* (old, id), old # v, it held for the item before
C9_UpdateReplaces ==
  [][\A sender \in DOMAIN ADDR_2_ID, u \in SlotValues(Kinds, MaxVal) :
       Updates(sender, u) =>
         LET id == ADDR_2_ID[sender]
             v == KeyValue(u.kind, u.value)
         IN /\ <<v, id>> \in Table(u.kind, u.slot)'
            /\ \A e \in EntriesOf(Table(u.kind, u.slot), id) :
                 e[1] # v => e \notin Table(u.kind, u.slot)']_vars

\* C10 (built-in entries of a registered item): for every address with an id
\* binding, IX_UPDATED_AT holds exactly one entry for the id,
\* (METADATA.updated_at, id), and IX_REV exactly one, (METADATA.rev, id); and
\* an update the address sends does not fail with NotInIndex
C10_BuiltinExact ==
  \A a \in DOMAIN ADDR_2_ID :
    /\ a \in DOMAIN METADATA
    /\ EntriesOf(IX_UPDATED_AT, ADDR_2_ID[a])
         = {<<nanos(METADATA[a].updated_at), ADDR_2_ID[a]>>}
    /\ EntriesOf(IX_REV, ADDR_2_ID[a]) = {<<METADATA[a].rev, ADDR_2_ID[a]>>}
    /\ update(Store, env_block, a, None).err # "NotInIndex"

\* the call update sent by `sender` succeeds in this step
UpdatedBy(sender) ==
  /\ storeVars' # storeVars
  /\ UNCHANGED <<env_block, instances, pending, rd>>
  /\ \E values \in IndexInputs(U64Only, RegMaxVal) :
       IsOk(update(Store, env_block, sender, values)) /\ Update(sender, values)

\* C11 (revision counter): an item's metadata is never dropped; its rev is 0
\* in the step that registers it, is one more after a step in which an update
\* it sent succeeded (with or without slot values), and is the same after
\* every other step
C11_Revision ==
  [][/\ DOMAIN METADATA \subseteq DOMAIN METADATA'
     /\ \A a \in DOMAIN METADATA' :
          IF a \notin DOMAIN METADATA THEN METADATA'[a].rev = 0
          ELSE IF UpdatedBy(a) THEN METADATA'[a].rev = METADATA[a].rev + 1
          ELSE METADATA'[a].rev = METADATA[a].rev]_vars

\* an item registered beside another one has been updated
C11_Updated ==
  \E a \in DOMAIN METADATA, b \in DOMAIN METADATA :
    a # b /\ METADATA[a].rev = 1 /\ METADATA[b].rev = 0

\* the page size the specification gives a request: 25 when no limit is
\* given, else the limit brought into 1..50
PageLimit(raw_limit) ==
  IF ~IsSome(raw_limit) THEN 25
  ELSE IF Unwrap(raw_limit) < 1 THEN 1
  ELSE IF Unwrap(raw_limit) > 50 THEN 50
  ELSE Unwrap(raw_limit)

\* the last page the session has read
LastPage(s) == s.pages[Len(s.pages)]

\* C12 (next cursor): the cursor a read returns is the compound key of the
\* last entry of its page, and is absent when the page is shorter than the
\* limit
C12_NextCursor ==
  (rd # None /\ Unwrap(rd).err = "Ok") =>
     LET s == Unwrap(rd)
         page == LastPage(s)
     IN s.cursor = IF Len(page) < PageLimit(s.raw_limit) THEN None
                   ELSE Some(page[Len(page)])

\* the key a page shows for the index entry e = (value, id)
KeyOf(e) == <<to_string(e[1]), e[2]>>

\* entry a comes before entry b in ascending (value, id) order
Before(a, b) == a[1] < b[1] \/ (a[1] = b[1] /\ a[2] < b[2])

\* the entries of `table` with lower <= value < upper, a missing bound being
\* unbounded
Within(table, lower, upper) ==
  {e \in table : /\ IsSome(lower) => e[1] >= Unwrap(lower)
                 /\ IsSome(upper) => e[1] < Unwrap(upper)}

\* the least of two numbers
Min(a, b) == IF a < b THEN a ELSE b

\* `page` is the first n entries of S in ascending (value, id) order
IsAscendingPrefix(page, S, n) ==
  /\ Len(page) = Min(Cardinality(S), n)
  /\ \A i \in 1..Len(page) : \E e \in S : KeyOf(e) = page[i]
  /\ LET entry(i) == CHOOSE e \in S : KeyOf(e) = page[i]
     IN /\ \A i \in 1..Len(page), j \in 1..Len(page) :
             i < j => Before(entry(i), entry(j))
        /\ \A e \in S :
             (\A i \in 1..Len(page) : KeyOf(e) # page[i]) =>
               \A i \in 1..Len(page) : Before(entry(i), e)

\* C13 (Between, ascending, no cursor): the first page of an ascending read
\* of the uint64 index of slot 0 with Between(lower, upper) holds exactly the
\* entries with lower <= value < upper, in ascending (value, id) order, cut
\* off at the limit
C13_BetweenAscending ==
  (rd # None /\ Unwrap(rd).err = "Ok") =>
     LET s == Unwrap(rd)
     IN (/\ s.bounds.target = "Uint64"
         /\ s.bounds.equals = None
         /\ s.bounds.between # None
         /\ s.desc # Some(TRUE)) =>
          IsAscendingPrefix(s.pages[1],
                            Within(IX_U64[s.bounds.slot], Unwrap(s.bounds.between)[1],
                                   Unwrap(s.bounds.between)[2]),
                            PageLimit(s.raw_limit))

\* a read Between(1, 2) with limit 1 returned one of two entries of value 1
\* while the table also holds an entry of value 2
C13_Truncated ==
  /\ rd # None
  /\ Unwrap(rd).err = "Ok"
  /\ Unwrap(rd).bounds.equals = None
  /\ Unwrap(rd).bounds.between = Some(<<Some(1), Some(2)>>)
  /\ Unwrap(rd).desc # Some(TRUE)
  /\ Unwrap(rd).raw_limit = Some(1)
  /\ Len(Unwrap(rd).pages[1]) = 1
  /\ Cardinality({e \in IX_U64[0] : e[1] = 1}) = 2
  /\ \E e \in IX_U64[0] : e[1] = 2

\* the entries of table whose value is exactly v
Exactly(table, v) == {e \in table : e[1] = v}

Matching(table, b) ==
  IF IsSome(b.equals) THEN Exactly(table, Unwrap(b.equals))
  ELSE IF IsSome(b.between) THEN Within(table, Unwrap(b.between)[1], Unwrap(b.between)[2])
  ELSE table

\* entry e comes strictly after entry c in the scan direction of session s
After(s, c, e) == IF s.desc = Some(TRUE) THEN Before(e, c) ELSE Before(c, e)

\* C15 (resume after the cursor): a page read with cursor c does not hold c;
\* it is empty only if no entry within the bounds lies strictly after c in
\* the scan direction, and otherwise starts with the nearest such entry
C15_ResumeAfterCursor ==
  (rd # None /\ Unwrap(rd).err = "Ok" /\ Len(Unwrap(rd).pages) >= 2) =>
     LET s == Unwrap(rd)
         table == IX_U64[s.bounds.slot]
         previous == s.pages[Len(s.pages) - 1]
         c == CHOOSE e \in table : KeyOf(e) = previous[Len(previous)]
         page == LastPage(s)
         rest == {e \in Matching(table, s.bounds) : After(s, c, e)}
     IN /\ \A i \in 1..Len(page) : page[i] # KeyOf(c)
        /\ (page = <<>>) <=> (rest = {})
        /\ page # <<>> =>
             \E e \in rest : /\ page[1] = KeyOf(e)
                             /\ \A f \in rest \ {e} : After(s, e, f)

\* C16 (page size): no page of a read holds more than limit entries, where
\* limit is 25 when none is given and the given limit brought into 1..50
\* otherwise (0 counts as 1); the first page holds that many entries, or all
\* the matching ones when they are fewer
C16_PageSize ==
  (rd # None /\ Unwrap(rd).err = "Ok") =>
     LET s == Unwrap(rd)
     IN /\ \A i \in 1..Len(s.pages) : Len(s.pages[i]) <= PageLimit(s.raw_limit)
        /\ Len(s.pages[1]) = Min(Cardinality(Matching(IX_U64[s.bounds.slot], s.bounds)),
                                 PageLimit(s.raw_limit))

\* a read asking for 51 entries of a table of more than 51 returned 50
C16_Clamped ==
  /\ rd # None
  /\ Unwrap(rd).err = "Ok"
  /\ Unwrap(rd).raw_limit = Some(51)
  /\ Len(Unwrap(rd).pages[1]) = 50
  /\ Cardinality(IX_U64[0]) > 51

\* the table a read of target t at slot sl scans, and a value of its kind, as
\* numbers that keep the order of the values
TargetRank(t, v) ==
  CASE t \in {"Address", "CreatedBy"} -> Rank(AddrOrder, v)
    [] t = "Text" -> Rank(PrefixOrder, v)
    [] t = "Boolean" -> bool_to_u8(v)
    [] OTHER -> v

TargetEntries(t, sl) ==
  CASE t = "Address" -> {<<a, METADATA[a].id>> : a \in DOMAIN METADATA}
    [] t = "CreatedBy" -> IX_CREATED_BY
    [] t = "CreatedAt" -> IX_CREATED_AT
    [] t = "UpdatedAt" -> IX_UPDATED_AT
    [] t = "Uint64" -> IX_U64[sl]
    [] t = "Text" -> IX_TEXT[sl]
    [] t = "Timestamp" -> IX_TS[sl]
    [] t = "Rev" -> IX_REV
    [] t = "CodeId" -> IX_CODE_ID
    [] t = "Height" -> IX_HEIGHT
    [] t = "Boolean" -> IX_BOOL[sl]
    [] t = "Uint128" -> IX_U128[sl]

\* the entries of its table the bounds b match: value = v for Equals(v),
\* lower <= value < upper for Between(lower, upper) and for the start and
\* stop of a Boolean index
TargetMatching(b) ==
  LET t == b.target
      ranked(o) == IF IsSome(o) THEN Some(TargetRank(t, Unwrap(o))) ELSE None
      within(e, lower, upper) ==
        /\ IsSome(lower) => TargetRank(t, e[1]) >= Unwrap(ranked(lower))
        /\ IsSome(upper) => TargetRank(t, e[1]) < Unwrap(ranked(upper))
      entries == IF t = "Boolean" THEN {<<x[1] = 1, x[2]>> : x \in TargetEntries(t, b.slot)}
                 ELSE TargetEntries(t, b.slot)
  IN IF t = "Boolean" THEN {e \in entries : within(e, b.between[1], b.between[2])}
     ELSE IF IsSome(b.equals) THEN {e \in entries : e[1] = Unwrap(b.equals)}
     ELSE IF IsSome(b.between)
          THEN {e \in entries : within(e, Unwrap(b.between)[1], Unwrap(b.between)[2])}
          ELSE entries

\* C17 (empty range): a read without cursor whose bounds match no entry of
\* its index returns an empty page and no cursor, whatever the target, the
\* order and the limit
C17_EmptyRange ==
  (rd # None /\ Unwrap(rd).err = "Ok" /\ Len(Unwrap(rd).pages) = 1) =>
     (TargetMatching(Unwrap(rd).bounds) = {} =>
        Unwrap(rd).pages[1] = <<>> /\ Unwrap(rd).cursor = None)

\* C18 (descending is the reverse): for a read without cursor whose limit is
\* at least the number of entries its bounds match, the page of the
\* descending read is the page of the ascending read in reverse
C18_DescendingReverses ==
  (rd # None /\ Unwrap(rd).err = "Ok") =>
     LET s == Unwrap(rd)
         opposite == read(Store, s.bounds,
                          IF s.desc = Some(TRUE) THEN Some(FALSE) ELSE Some(TRUE),
                          s.raw_limit, None)
     IN Cardinality(TargetMatching(s.bounds)) <= PageLimit(s.raw_limit) =>
          IsOk(opposite) /\ s.pages[1] = Reverse(opposite.keys)

\* C19 (Equals on a text index, page by page): a read Equals(t) of the text
\* index of slot 0 with a limit below the number of items of value t, once
\* it has followed the returned cursors to the end, has returned the entry
\* of every item of value t exactly once
C19_TextEqualsComplete ==
  (rd # None /\ Unwrap(rd).err = "Ok" /\ Unwrap(rd).done) =>
     LET s == Unwrap(rd)
     IN (/\ s.bounds.target = "Text"
         /\ s.bounds.equals # None
         /\ PageLimit(s.raw_limit) < Cardinality(TargetMatching(s.bounds))) =>
          /\ SeqToSet(s.keys) = TargetMatching(s.bounds)
          /\ Len(s.keys) = Cardinality(TargetMatching(s.bounds))

\* C20 (one entry per item): between calls, no table of a (kind, slot) holds
\* two entries of the same item id
C20_OneEntryPerItem ==
  pending = None =>
    \A k \in Kinds, s \in Slots :
      \A id \in {e[2] : e \in Table(k, s)} :
        Cardinality(EntriesOf(Table(k, s), id)) = 1

\* the call rd records, and whether it is a call of the entry point `call`
Last == Unwrap(rd)
LastCall(call) == rd # None /\ Last.call = call

\* the slot values a recorded create or update carried
CarriedValues == IF Last.call = "create" THEN Last.input.indices ELSE Last.input

\* the position of the first value of q that names a slot out of range
\* (Len(q) + 1 if there is none)
FirstOutOfBounds(q) ==
  IF \E i \in 1..Len(q) : q[i].slot >= SLOT_COUNT
  THEN CHOOSE i \in 1..Len(q) :
         /\ q[i].slot >= SLOT_COUNT
         /\ \A j \in 1..(i - 1) : q[j].slot < SLOT_COUNT
  ELSE Len(q) + 1

\* the recorded create or update, sent with the slot values q instead, on
\* the storage the recorded call started from
Resent(q) ==
  IF Last.call = "create"
  THEN create(Last.before, Last.sender, Last.input.code_id, Last.input.label, Some(q),
              Last.input.save_as, Last.input.tags, Last.input.relationships, Last.allowed)
  ELSE update(Last.before, env_block, Last.sender, Some(q))

\* the recorded call is a create or an update that carries a value for a slot
\* out of range, and it succeeds when sent with the values before that one
OutOfBoundsCall ==
  /\ rd # None
  /\ Last.call \in {"create", "update"}
  /\ IsSome(CarriedValues)
  /\ LET q == Unwrap(CarriedValues)
         i == FirstOutOfBounds(q)
     IN i <= Len(q) /\ IsOk(Resent(SubSeq(q, 1, i - 1)))

\* C21 (slot out of bounds): a create or update that carries a value for a
\* slot >= SLOT_COUNT, the values before it being accepted, fails with
\* SlotOutOfBounds and leaves the whole storage as it was before the call
C21_SlotOutOfBounds ==
  OutOfBoundsCall => Last.err = "SlotOutOfBounds" /\ Store = Last.before

\* an update whose second value names slot SLOT_COUNT has been rejected
C21_Rejected ==
  /\ OutOfBoundsCall
  /\ Last.call = "update"
  /\ Len(Unwrap(CarriedValues)) = 2
  /\ Last.err = "SlotOutOfBounds"

\* C22 (table of a slot out of range): a read that targets the index of a
\* kind at a slot >= SLOT_COUNT fails with SlotOutOfBounds
C22_ReadOutOfBounds ==
  (LastCall("read") /\ Last.input.slot >= SLOT_COUNT) => Last.err = "SlotOutOfBounds"

\* the recorded call is a create or an update that carries the one value u,
\* of a slot in range that holds no entry of the item yet, and the call
\* succeeds when sent without the value
FirstWrite(u) ==
  /\ rd # None
  /\ Last.call \in {"create", "update"}
  /\ CarriedValues = Some(<<u>>)
  /\ u.slot < SLOT_COUNT
  /\ IsOk(Resent(<<>>))
  /\ Last.call = "update" =>
       EntriesOf(Last.before[TableField(u.kind)][u.slot], Last.before.ADDR_2_ID[Last.sender]) = {}

\* C23 (metadata never initialized): a create or update that writes a first
\* value into (kind, slot), slot < SLOT_COUNT, fails with InvalidIndexSlot if
\* and only if instantiate never initialized the IndexMetadata record of that
\* (kind, slot), whatever the metadata of the other kinds at the slot
C23_InvalidIndexSlot ==
  \A u \in {SlotValue(k, s) : k \in CallsKinds, s \in Slots} :
    FirstWrite(u) =>
      (Last.err = "InvalidIndexSlot" <=> ~MapHas(Last.before[MetaField(u.kind)], u.slot))

\* the registered address a has lost its (updated_at, id) entry or its
\* (rev, id) entry in the built-in indices
MissingEntry(a) ==
  /\ a \in DOMAIN ADDR_2_ID
  /\ a \in DOMAIN METADATA
  /\ \/ <<nanos(METADATA[a].updated_at), ADDR_2_ID[a]>> \notin IX_UPDATED_AT
     \/ <<METADATA[a].rev, ADDR_2_ID[a]>> \notin IX_REV

\* C24 (NotInIndex aborts): while the item's current (updated_at, id) or
\* (rev, id) entry is missing from its built-in index, every update it sends
\* returns NotInIndex, and no step that changes the storage (the built-in
\* indices, METADATA, the slot tables, size counters and IndexedValues among
\* it) is a step of such an update
C24_NotInIndexAborts ==
  /\ [](\A a \in DOMAIN ADDR_2_ID :
          MissingEntry(a) =>
            \A values \in IndexInputs(U64Only, RegMaxVal) :
              update(Store, env_block, a, values).err = "NotInIndex")
  /\ [][storeVars' # storeVars =>
          \A a \in DOMAIN ADDR_2_ID :
            MissingEntry(a) =>
              \A values \in IndexInputs(U64Only, RegMaxVal) : ~Update(a, values)]_vars

\* an item whose revision entry is missing can still send an update: its
\* revision is below the cap
C24_Missing ==
  \E a \in DOMAIN ADDR_2_ID :
    /\ MissingEntry(a)
    /\ pending = None
    /\ RevBelow(a, MaxRev)
    /\ update(Store, env_block, a, None).err = "NotInIndex"

\* the sender of the recorded call is authorized: without an ACL contract it
\* is the creator of the repository, with one the ACL contract said yes
SenderAuthorized ==
  IF IsSome(Last.before.ACL_CONTRACT_ADDR) THEN Last.allowed
  ELSE Last.sender = Last.before.CREATED_BY

\* C25 (remove of an unknown item): a remove, sent by an authorized sender,
\* of an address that has no id binding (never registered, or removed
\* before) fails with NotFound and leaves the storage as it was
C25_RemoveNotFound ==
  (LastCall("remove") /\ SenderAuthorized /\ Last.input \notin DOMAIN Last.before.ADDR_2_ID)
    => Last.err = "NotFound" /\ Store = Last.before

\* the recorded call is a create that returned Ok and whose instantiate
\* submessage has failed: the reply has been delivered and the chain has
\* instantiated nothing
CreateFailed ==
  /\ LastCall("create")
  /\ Last.err = "Ok"
  /\ pending = None
  /\ instances = 0

\* C26 (create and reply are one transaction): reply answers a failed
\* instantiate submessage with CreateFailed, and after it none of the writes
\* of the create persist: COUNT, TAGGED_CONTRACT_IDS, RELATIONSHIPS,
\* IX_CREATED_BY, the slot tables, the size counters and ID_2_INDEXED_VALUES
\* (the whole storage) equal their values before the create
C26_CreateFailedRestores ==
  CreateFailed =>
    /\ reply(Store, env_block, Last.before.COUNT, [ok |-> FALSE]).err = "CreateFailed"
    /\ Store = Last.before

\* a create that wrote a tag, a relationship and a slot value has failed
C26_Failed ==
  /\ CreateFailed
  /\ IsSome(Last.input.tags)
  /\ IsSome(Last.input.relationships)
  /\ Last.input.indices = Some(<<SlotValue("Uint64", 0)>>)
  /\ MapHas(Last.before.IX_META_U64, 0)
  /\ COUNT = 0
  /\ TAGGED_CONTRACT_IDS = {}
  /\ IX_META_U64[0].size = 0

\* the storage without its five metadata maps
Untouched(st) ==
  [f \in (DOMAIN st) \ {MetaField(k) : k \in Kinds} |-> st[f]]

\* C27 (touch): after a successful update of (kind k, slot s) of item id to
\* value v at block time t, the IndexMetadata record of (k, s) has
\* updated_key = (v, id) and updated_at = t and the name it had; and touching
\* a record with update_index_metadata changes no table, only that record
C27_Touch ==
  /\ [][\A sender \in DOMAIN ADDR_2_ID, u \in SlotValues(Kinds, MaxVal) :
          Updates(sender, u) =>
            LET id == ADDR_2_ID[sender]
                v == KeyValue(u.kind, u.value)
                old == Store[MetaField(u.kind)][u.slot]
                new == Store'[MetaField(u.kind)][u.slot]
            IN /\ new.updated_key = Some(<<IndexPrefix(u.kind, v), id>>)
               /\ new.updated_at = Some(env_block.time)
               /\ new.name = old.name]_vars
  /\ [](\A k \in Kinds, s \in InSlots :
          LET r == update_index_metadata(Store, env_block, MetaField(k), s, 0, IndexPrefix(k, 1))
          IN IsOk(r) =>
               /\ Untouched(r.st) = Untouched(Store)
               /\ \A j \in Kinds \ {k} : r.st[MetaField(j)] = Store[MetaField(j)]
               /\ \A x \in (DOMAIN Store[MetaField(k)]) \ {s} :
                    r.st[MetaField(k)][x] = Store[MetaField(k)][x])

\* the Boolean slot of an item was updated in the second block, and its
\* uint64 slot in the first
C27_Touched ==
  /\ IX_META_BOOL[0].updated_at = Some(2)
  /\ IX_META_BOOL[0].updated_key = Some(<<IndexPrefix("Boolean", 1), 0>>)
  /\ IX_META_U64[0].updated_at = Some(1)

\* the name an Option<String> reads as
NameOf(o) == IF IsSome(o) THEN Unwrap(o) ELSE ""

\* C28 (rename is a pure metadata edit): a successful rename_index reports
\* the previous name of the addressed (kind, slot) and sets the new one; the
\* record's size, updated_key and updated_at, every other metadata record,
\* every index table and every item record are as before the call
C28_RenameOnly ==
  (LastCall("rename_index") /\ Last.err = "Ok") =>
    LET name == Last.input.name
        f == MetaField(name.kind)
    IN /\ Last.input.old_name = NameOf(Last.before[f][name.slot].name)
       /\ Store[f][name.slot].name = name.name
       /\ Store = [Last.before EXCEPT ![f][name.slot].name = name.name]

\* the uint64 index of slot 0 has been renamed while it held an entry
C28_Renamed ==
  /\ LastCall("rename_index")
  /\ Last.err = "Ok"
  /\ Last.input.name = [kind |-> "Uint64", slot |-> 0, name |-> Some("x")]
  /\ IX_META_U64[0].size = 1
  /\ IX_META_U64[0].name = Some("x")

\* the entry points that ask is_allowed
Guarded == {"create", "remove", "rename_index", "set_acl", "update_allowed_code_ids"}

\* C29 (creator only): while no ACL contract is configured, a create,
\* remove, rename_index, set_acl or update_allowed_code_ids call sent by
\* another address than CREATED_BY fails with NotAuthorized and leaves the
\* storage as it was, and the same call sent by the creator does not fail
\* with NotAuthorized
C29_CreatorOnly ==
  (rd # None /\ Last.call \in Guarded /\ ~IsSome(Last.before.ACL_CONTRACT_ADDR)) =>
    IF Last.sender # Last.before.CREATED_BY
    THEN Last.err = "NotAuthorized" /\ Store = Last.before
    ELSE Last.err # "NotAuthorized"

\* C30 (COUNT counts the items): whenever no create awaits its reply, COUNT
\* equals the number of addresses that have an id binding
C30_CountIsRegistered ==
  pending = None => COUNT = Cardinality(DOMAIN ADDR_2_ID)

\* two items are registered after a third was removed
C30_Counted ==
  /\ pending = None
  /\ COUNT = 2
  /\ Cardinality(DOMAIN ADDR_2_ID) = 2
  /\ Cardinality(DOMAIN METADATA) = 3

\* C31 (pages stay within the bounds): every entry of every page of a read,
\* first page or resumed from the cursor of the page before, in either order,
\* has a value the bounds of the request match (value = v for Equals(v),
\* lower <= value < upper for Between(lower, upper))
C31_PagesWithinBounds ==
  (rd # None /\ Unwrap(rd).err = "Ok") =>
     LET s == Unwrap(rd)
         matching == Matching(IX_U64[s.bounds.slot], s.bounds)
     IN \A i \in 1..Len(s.pages) :
          \A j \in 1..Len(s.pages[i]) :
            \E e \in matching : KeyOf(e) = s.pages[i][j]

\* C32 (Address target, resume after the cursor): a page of an Address read
\* resumed from the cursor of the page before does not hold the item of that
\* cursor, and the pages of a read that follows its cursors hold no item
\* twice
C32_AddressResumes ==
  (rd # None /\ Unwrap(rd).err = "Ok" /\ Unwrap(rd).bounds.target = "Address") =>
     LET s == Unwrap(rd)
     IN /\ \A p \in 2..Len(s.pages) :
             \A j \in 1..Len(s.pages[p]) :
               s.pages[p][j] # s.pages[p - 1][Len(s.pages[p - 1])]
        /\ \A i \in 1..Len(s.keys), j \in 1..Len(s.keys) :
             i # j => s.keys[i] # s.keys[j]

\* the parts of the storage that belong to the slots other than (k, s) and
\* to the items other than id: the tables, the metadata records (size
\* counter, last-touched record) and the item's own IndexedValues entries of
\* every other (kind, slot), the IndexedValues and ContractMetadata of every
\* other item, and everything an update has no reason to write
OutsideSlot(st, k, s, id) ==
  [tables |-> [j \in Kinds |-> [x \in {y \in Slots : <<j, y>> # <<k, s>>} |-> st[TableField(j)][x]]],
   metadata |-> [j \in Kinds |->
                   [x \in {y \in DOMAIN st[MetaField(j)] : <<j, y>> # <<k, s>>} |-> st[MetaField(j)][x]]],
   recorded |-> [j \in Kinds |->
                   [x \in {y \in Slots : <<j, y>> # <<k, s>>} |->
                      st.ID_2_INDEXED_VALUES[id][KeysField(j)][x]]],
   others |-> [i \in (DOMAIN st.ID_2_INDEXED_VALUES) \ {id} |-> st.ID_2_INDEXED_VALUES[i]],
   items |-> [a \in {b \in DOMAIN st.METADATA : st.METADATA[b].id # id} |-> st.METADATA[a]],
   rest |-> <<st.ADDR_2_ID, st.ID_2_ADDR, st.COUNT, st.TAGGED_CONTRACT_IDS, st.RELATIONSHIPS,
              st.IX_CREATED_AT, st.IX_CREATED_BY, st.IX_CODE_ID, st.IX_HEIGHT, st.PRESETS,
              st.ALLOWED_CODE_IDS, st.ACL_CONTRACT_ADDR, st.CREATED_BY>>]

\* C33 (frame of an update): a successful update carrying one value for
\* (kind k, slot s) leaves the tables, size counters, last-touched records
\* and IndexedValues entries of every other kind and slot, and every record
\* of the other items, as they were
C33_UpdateFrame ==
  [][\A sender \in DOMAIN ADDR_2_ID, u \in SlotValues(Kinds, MaxVal) :
       (Updates(sender, u) /\ MapHas(ID_2_INDEXED_VALUES, ADDR_2_ID[sender])) =>
         OutsideSlot(Store', u.kind, u.slot, ADDR_2_ID[sender])
           = OutsideSlot(Store, u.kind, u.slot, ADDR_2_ID[sender])]_vars

\* the ids of the entries of every index read can scan: the slot tables of
\* the five kinds, the built-in indices and the metadata table
ScannedIds ==
  UNION {{e[2] : e \in Table(k, s)} : <<k, s>> \in Kinds \X Slots}
    \cup {e[2] : e \in IX_CREATED_AT \cup IX_UPDATED_AT \cup IX_REV \cup IX_HEIGHT
                         \cup IX_CODE_ID}
    \cup {e[2] : e \in IX_CREATED_BY}
    \cup {METADATA[a].id : a \in DOMAIN METADATA}

\* C34 (indices hold registered items only): between calls, every item id
\* found in an index read can scan has an ID_2_ADDR binding, and a read of
\* the created-by index or of the metadata table does not fail because it
\* meets a removed item's id
C34_ScannedIdsBound ==
  pending = None =>
    /\ ScannedIds \subseteq DOMAIN ID_2_ADDR
    /\ \A t \in {"CreatedBy", "Address"} :
         read(Store, [target |-> t, slot |-> 0, equals |-> None, between |-> None],
              None, None, None).err # "NotFound"

\* C35 (no underflow of a size counter): between calls no size counter of an
\* initialised (kind, slot) is below 0 (none has wrapped), and the remove of
\* a registered item does not abort on a decrement of a counter that is 0
C35_SizeNeverBelowZero ==
  pending = None =>
    /\ \A k \in Kinds : \A s \in DOMAIN Store[MetaField(k)] :
         Store[MetaField(k)][s].size >= 0
    /\ \A a \in DOMAIN ADDR_2_ID : remove(Store, a, TRUE, FALSE).err # "panic"

\* C36 (registered items stay removable): between calls, for every address
\* with an id binding, the remove of that address succeeds whenever its
\* authorization check passes, whichever way the build treats overflow
C36_Removable ==
  pending = None =>
    \A a \in DOMAIN ADDR_2_ID, acl_reply \in BOOLEAN, wraps \in BOOLEAN :
      is_allowed(Store, a, "remove", acl_reply) => IsOk(remove(Store, a, acl_reply, wraps))

\* C37 (update needs a registered sender): an update sent by an address
\* without an id binding (never registered, or removed) fails and leaves the
\* storage as it was; and no such address has a successful update to send
C37_UpdateNeedsRegistered ==
  /\ (LastCall("update") /\ Last.sender \notin DOMAIN Last.before.ADDR_2_ID) =>
        Last.err # "Ok" /\ Store = Last.before
  /\ pending = None =>
       \A a \in (ContractAddrsUpTo(CallsMaxCount) \cup {Stranger}) \ DOMAIN ADDR_2_ID :
         \A values \in CallsIndices : ~IsOk(update(Store, env_block, a, values))

\* the address of a removed item has sent an update, which failed
C37_RemovedSender ==
  /\ LastCall("update")
  /\ Last.sender \in DOMAIN METADATA
  /\ Last.sender \notin DOMAIN ADDR_2_ID
  /\ Last.err = "NotFound"
  /\ COUNT = 0

\* C38 (the default code id stays allowed): in every state the set of
\* allowed code ids is non-empty and holds DEFAULT_CODE_ID, and a create
\* that passed the authorization check and names no code id has not failed
\* with CodeIdNotAllowed
C38_DefaultCodeIdAllowed ==
  /\ ALLOWED_CODE_IDS # {}
  /\ DEFAULT_CODE_ID \in ALLOWED_CODE_IDS
  /\ (LastCall("create") /\ Last.input.code_id = None) => Last.err # "CodeIdNotAllowed"

\* the key under which the recorded create asked to save its parameters
PresetKey == <<Last.sender, Unwrap(Last.input.save_as)>>

\* the recorded call is a create that passed the authorization check and
\* asked to save its parameters as a preset
SavingCreate ==
  /\ LastCall("create")
  /\ IsSome(Last.input.save_as)
  /\ is_allowed(Last.before, Last.sender, "create", Last.allowed)

\* C39 (preset names are per sender): an authorized create asking to save its
\* parameters under a name the sender already has a preset for fails with
\* PresetExists, leaves the storage (the stored preset included) as it was
\* and puts no instantiation in flight; under a name the sender has no preset
\* for it succeeds, whoever else owns a preset of that name, and until the
\* reply the preset is stored beside the untouched earlier ones
C39_PresetExists ==
  SavingCreate =>
    IF MapHas(Last.before.PRESETS, PresetKey)
    THEN /\ Last.err = "PresetExists"
         /\ Store = Last.before
         /\ pending = None
    ELSE /\ Last.err = "Ok"
         /\ pending # None =>
              /\ MapHas(PRESETS, PresetKey)
              /\ PRESETS[PresetKey].indices = Last.input.indices
              /\ \A k \in DOMAIN Last.before.PRESETS : PRESETS[k] = Last.before.PRESETS[k]

\* a sender asked again for a name under which it and another sender each
\* hold a preset, this time with other parameters, and was refused
C39_Refused ==
  /\ SavingCreate
  /\ Last.err = "PresetExists"
  /\ \E other \in Senders \ {Last.sender} : MapHas(PRESETS, <<other, PresetKey[2]>>)
  /\ PRESETS[PresetKey].indices # Last.input.indices
  /\ COUNT = 2

====
